---- MODULE Spec2Model ----
(***************************************************************************)
(* Westminster footfall analysis: the categorizer, the bin assigner and    *)
(* the sensor placement optimizer of westminster_footfall_analysis_simple, *)
(* the run coordination of backend/server.py, and the bin sensor optimizer *)
(* and analysis object of westminster_footfall_analysis.                   *)
(*                                                                         *)
(* The specifications of this module share its variables:                  *)
(*   SpecGrid        create_grid over a range of configurations            *)
(*   SpecScore       calculate_footfall_scores on a row of fresh cells     *)
(*   SpecCategorize  categorize_cells on a scored cell list                *)
(*   SpecAssign      assign_bins_to_cells alone                            *)
(*   SpecPlacement   assign_bins_to_cells, then optimize_sensor_placement  *)
(*   SpecScenario    the same two calls on three categories, one of them   *)
(*                   holding most of the bins                              *)
(*   SpecSampling    BinSensorOptimizer.optimize_sensor_placement on small *)
(*                   frames of projected bins                              *)
(*   SpecAnalysis    run_analysis and optimize_bin_sensors calls on one    *)
(*                   WestminsterFootfallAnalysis object                    *)
(*   SpecServer      /api/run-analysis requests and run_full_analysis      *)
(*                   threads of the backend server                         *)
(*   SpecServerLive  SpecServer with fair scheduling of started threads    *)
(*                                                                         *)
(* Units.  Positions are integer lattice points; one unit is half the      *)
(* default GRID_RESOLUTION, so distances are compared by their squares;    *)
(* create_grid alone works in units of 0.0001 degree.  In SpecCategorize   *)
(* footfall_score is a small integer: the code only compares scores of     *)
(* cells, so any order-preserving scale gives the same sort.               *)
(***************************************************************************)
EXTENDS Integers, Sequences, FiniteSets, TLC

VARIABLES
    cells,          \* List[GridCell] of the run
    n_categories,   \* config.N_FOOTFALL_CATEGORIES
    cat_pc,         \* "config", "created", "scored", then "done" or "error"
    bins,           \* List[BinLocation] of the run
    n_sensors,      \* argument n_sensors of optimize_sensor_placement
    opt_pc,         \* "loaded", "assigned", "optimized"
    selected,       \* the list optimize_sensor_placement returns (bin indices)
    target_per_category,  \* target_per_category of optimize_sensor_placement
                    \* (target_distribution in BinSensorOptimizer)
    config,         \* Config fields create_grid reads (units of 0.0001 degree)
    grid_pc,        \* position of create_grid: "config", "created", "looping"
    tubes,          \* List[TubeStation] given to calculate_footfall_scores
    buses,          \* List[BusStop]
    premises,       \* List[LicensedPremises]
    norms,          \* tube_norm, bus_norm, premises_norm of each cell
    state,          \* the AnalysisState singleton of backend/server.py
    run,            \* the run_full_analysis threads, by start order
    handler,        \* the HTTP server thread inside /api/run-analysis
    response,       \* "status" of the last /api/run-analysis response
    bins_proj,      \* bins of BinSensorOptimizer.optimize_sensor_placement,
                    \* projected to metres (westminster_footfall_analysis)
    min_distance_m, \* argument min_distance_m of that function
    full_pc,        \* "idle", "assigned", then "optimized" or "raised"
    analysis,       \* the fields of a WestminsterFootfallAnalysis object
    analysis_pc,    \* 0, or the next statement of run_analysis
    calls,          \* calls made on the analysis object so far
    outcome         \* how the last optimize_bin_sensors call ended

pureVars == <<cells, n_categories, cat_pc, bins, n_sensors, opt_pc, selected,
              target_per_category>>
gridVars == <<config, grid_pc, tubes, buses, premises, norms>>
srvVars  == <<state, run, handler, response>>
fullVars == <<bins_proj, min_distance_m, full_pc, analysis, analysis_pc, calls,
              outcome>>
vars     == <<pureVars, gridVars, srvVars, fullVars>>

----------------------------------------------------------------------------
(* Bounds of the model *)

MaxCells == 5        \* cells in a categorize_cells input
MaxScore == 2        \* distinct footfall_score values are 0..MaxScore
MaxK     == 4        \* N_FOOTFALL_CATEGORIES ranges over 1..MaxK

(* Program constants *)

NumLabels == 8       \* len(category_names)
NoCell    == -1      \* BinLocation.cell_id == "" (cell ids are 0, 1, ...)
NoName    == -1      \* GridCell.footfall_category_name == ""

Min(a, b) == IF a <= b THEN a ELSE b
Max(a, b) == IF a >= b THEN a ELSE b

(* A function over 1..n as a list value *)
List(f) == SubSeq(f, 1, Len(f))

(* A function over a finite set of keys as a dict value *)
RECURSIVE DictOver(_, _)
DictOver(f, S) ==
    IF S = {} THEN <<>>
    ELSE LET x == CHOOSE y \in S : TRUE
         IN  (x :> f[x]) @@ DictOver(f, S \ {x})

Dict(f) == DictOver(f, DOMAIN f)

----------------------------------------------------------------------------
(* backend/server.py: AnalysisState and the steps of run_full_analysis     *)

MaxStarted == 2      \* run_full_analysis threads started in a behaviour

(* AnalysisState.__init__.  cells and bins hold the number of the run that *)
(* published them, 0 for None.  tubes, buses and premises are 0 for None   *)
(* and 1 once loaded: the loaders return the same tables to every caller.  *)
AnalysisState ==
    [tubes |-> 0, buses |-> 0, premises |-> 0, cells |-> 0, bins |-> 0,
     status |-> "idle", progress |-> 0, message |-> "Ready to run"]

(* The statements of the try block of run_full_analysis, in program order. *)
(* set: an assignment to a property of state (one lock acquisition);       *)
(* load: state.<field> = <loader>(); call: a pipeline call on the locals   *)
(* of the thread; publish: state.cells = cells or state.bins = bins.       *)
RunSteps ==
    << [kind |-> "set",     field |-> "status",   val |-> "running"],
       [kind |-> "set",     field |-> "progress", val |-> 0],
       [kind |-> "set",     field |-> "message",  val |-> "Initializing..."],
       [kind |-> "set",     field |-> "progress", val |-> 5],
       [kind |-> "set",     field |-> "message",  val |-> "Loading tube station data..."],
       [kind |-> "load",    field |-> "tubes",    val |-> "load_tube_stations"],
       [kind |-> "set",     field |-> "progress", val |-> 15],
       [kind |-> "set",     field |-> "message",  val |-> "Loading bus stop data..."],
       [kind |-> "load",    field |-> "buses",    val |-> "load_bus_stops"],
       [kind |-> "set",     field |-> "progress", val |-> 25],
       [kind |-> "set",     field |-> "message",  val |-> "Loading licensed premises data..."],
       [kind |-> "load",    field |-> "premises", val |-> "load_licensed_premises"],
       [kind |-> "set",     field |-> "progress", val |-> 35],
       [kind |-> "set",     field |-> "message",  val |-> "Creating analysis grid..."],
       [kind |-> "call",    field |-> "cells",    val |-> "create_grid"],
       [kind |-> "set",     field |-> "progress", val |-> 45],
       [kind |-> "set",     field |-> "message",  val |-> "Calculating footfall scores..."],
       [kind |-> "call",    field |-> "cells",    val |-> "calculate_footfall_scores"],
       [kind |-> "set",     field |-> "progress", val |-> 60],
       [kind |-> "set",     field |-> "message",  val |-> "Categorizing footfall zones..."],
       [kind |-> "call",    field |-> "cells",    val |-> "categorize_cells"],
       [kind |-> "publish", field |-> "cells",    val |-> "cells"],
       [kind |-> "set",     field |-> "progress", val |-> 70],
       [kind |-> "set",     field |-> "message",  val |-> "Generating sample bin locations..."],
       [kind |-> "call",    field |-> "bins",     val |-> "load_bins_from_csv"],
       [kind |-> "set",     field |-> "progress", val |-> 80],
       [kind |-> "set",     field |-> "message",  val |-> "Assigning bins to grid cells..."],
       [kind |-> "call",    field |-> "bins",     val |-> "assign_bins_to_cells"],
       [kind |-> "set",     field |-> "progress", val |-> 90],
       [kind |-> "set",     field |-> "message",  val |-> "Optimizing sensor placement..."],
       [kind |-> "call",    field |-> "bins",     val |-> "optimize_sensor_placement"],
       [kind |-> "publish", field |-> "bins",     val |-> "bins"],
       [kind |-> "set",     field |-> "progress", val |-> 95],
       [kind |-> "set",     field |-> "message",  val |-> "Saving results..."],
       [kind |-> "call",    field |-> "output",   val |-> "save_grid_csv"],
       [kind |-> "set",     field |-> "progress", val |-> 100],
       [kind |-> "set",     field |-> "message",  val |-> "Analysis complete!"],
       [kind |-> "set",     field |-> "status",   val |-> "complete"] >>

(* A thread: pc is the index of the next statement of RunSteps, or one of  *)
(* the positions below; stage is the last pipeline call that returned;     *)
(* cells0 and bins0 are state.cells and state.bins as the thread found     *)
(* them when it started.                                                   *)
PcNotStarted    == 0                   \* Thread object not created yet
PcReturned      == Len(RunSteps) + 1   \* run_full_analysis returned from try
PcExceptStatus  == Len(RunSteps) + 2   \* at state.status = "error"
PcExceptMessage == Len(RunSteps) + 3   \* at state.message = f"Error: ..."
PcFailed        == Len(RunSteps) + 4   \* returned from the except clause

NotStarted == [pc |-> PcNotStarted, stage |-> "none", cells0 |-> 0, bins0 |-> 0]

InTry(r)    == r.pc \in 1..Len(RunSteps)
InExcept(r) == r.pc \in {PcExceptStatus, PcExceptMessage}
InFlight(r) == InTry(r) \/ InExcept(r)
Ended(r)    == r.pc \in {PcReturned, PcFailed}

RunsInFlight == {t \in 1..MaxStarted : InFlight(run[t])}

(* Variant: assign_bins_to_cells taken to write the cells it reads *)
CellWritersWithAssign ==
    {"create_grid", "calculate_footfall_scores", "categorize_cells",
     "assign_bins_to_cells"}

(* The pipeline calls that build GridCell objects or assign to their       *)
(* attributes: create_grid builds a new list, calculate_footfall_scores    *)
(* and categorize_cells write every cell of the list they are given.       *)
(* assign_bins_to_cells, the savers and the handlers only read cells.      *)
CellWriters ==
    {"create_grid", "calculate_footfall_scores", "categorize_cells"}

----------------------------------------------------------------------------
(* GridCell, as create_grid and calculate_footfall_scores leave it: ids    *)
(* are dense in list order, category and label still at their defaults.    *)

GridCell(id, lat, lon, score) ==
    [cell_id |-> id, center_lat |-> lat, center_lon |-> lon,
     tube_score |-> 0, bus_score |-> 0, premises_score |-> 0,
     footfall_score |-> score, footfall_category |-> 0,
     footfall_category_name |-> NoName]

(* Variants of the sort: descending order, and ties broken against the     *)
(* input order.                                                            *)
SortPosByScoreDescending(cs, e) ==
    1 + Cardinality({f \in 1..Len(cs) :
            \/ cs[f].footfall_score > cs[e].footfall_score
            \/ /\ cs[f].footfall_score = cs[e].footfall_score
               /\ f < e})

SortPosByScoreUnstable(cs, e) ==
    1 + Cardinality({f \in 1..Len(cs) :
            \/ cs[f].footfall_score < cs[e].footfall_score
            \/ /\ cs[f].footfall_score = cs[e].footfall_score
               /\ f > e})

(* sorted(cells, key=lambda c: c.footfall_score): Python's sort is stable.  *)
(* SortPosByScore(cs, e) is the 1-based position of cs[e] in the sorted     *)
(* list: one more than the number of cells that sort before it.            *)
SortPosByScore(cs, e) ==
    1 + Cardinality({f \in 1..Len(cs) :
            \/ cs[f].footfall_score < cs[e].footfall_score
            \/ /\ cs[f].footfall_score = cs[e].footfall_score
               /\ f < e})

(* sorted_cells as the list of indices into cells *)
SortedCells(cs) ==
    LET pos == List([e \in 1..Len(cs) |-> SortPosByScore(cs, e)])
    IN  List([p \in 1..Len(cs) |-> CHOOSE e \in 1..Len(cs) : pos[e] = p])

(* Variant: percentile taken as (i + 1) / n *)
CategoryOfRankOneBased(i, n, K) == Min(((i + 1) * K) \div n, K - 1)

(* category of the cell at 0-based sort position i among n cells:          *)
(* percentile = i / n; min(int(percentile * K), K - 1)                     *)
CategoryOfRank(i, n, K) == Min((i * K) \div n, K - 1)

(* The first sort position (1-based) whose label lookup                    *)
(* category_names[category] raises IndexError, or 0 when none does.        *)
FirstBadRank(n, K) ==
    LET bad == {p \in 1..n : CategoryOfRank(p - 1, n, K) >= NumLabels}
    IN  IF bad = {} THEN 0 ELSE CHOOSE p \in bad : \A q \in bad : p <= q

(* The cell list after the loop of categorize_cells has run up to and      *)
(* including sort position upto; when failAt > 0 the cell at that position *)
(* has its category written and its label not.                             *)
CategorizeLoop(cs, K, upto, failAt) ==
    LET n == Len(cs)
    IN  List([e \in 1..n |->
            LET p == SortPosByScore(cs, e)
                c == CategoryOfRank(p - 1, n, K)
            IN  IF p > upto THEN cs[e]
                ELSE IF p = failAt
                     THEN [cs[e] EXCEPT !.footfall_category = c]
                     ELSE [cs[e] EXCEPT !.footfall_category = c,
                                        !.footfall_category_name = c]])

(* categorize_cells(cells, config).  When no lookup of the loop raises and *)
(* K exceeds the label table, the statistics loop                          *)
(* "for cat in range(K): ... category_names[cat]" raises IndexError after  *)
(* every cell has been categorized.                                        *)
categorize_cells(cs, K) ==
    LET bad == FirstBadRank(Len(cs), K)
    IN  IF bad = 0
        THEN [cells |-> CategorizeLoop(cs, K, Len(cs), 0),
              raised |-> K > NumLabels]
        ELSE [cells |-> CategorizeLoop(cs, K, bad, bad), raised |-> TRUE]

----------------------------------------------------------------------------
(* SpecCategorize: categorize_cells applied to a scored cell list *)

ScoredCellLists ==
    UNION {{List([i \in 1..n |-> GridCell(i - 1, 0, i - 1, s[i])]) :
                s \in [1..n -> 0..MaxScore]} : n \in 0..MaxCells}

(* Config as its dataclass defaults give it (lines 48-54, in units of      *)
(* 0.0001 degree), the grid built, no points of interest loaded.           *)
DefaultConfig ==
    [MIN_LON |-> -2000, MAX_LON |-> -1100, MIN_LAT |-> 514850,
     MAX_LAT |-> 515350, GRID_RESOLUTION |-> 10]

GridAtRest ==
    /\ config = DefaultConfig
    /\ grid_pc = "created"
    /\ tubes = <<>>
    /\ buses = <<>>
    /\ premises = <<>>
    /\ norms = <<>>

(* The server as constructed, before any request *)
ServerAtRest ==
    /\ state = AnalysisState
    /\ run = [t \in 1..MaxStarted |-> NotStarted]
    /\ handler = "idle"
    /\ response = "none"

(* WestminsterFootfallAnalysis.__init__ (westminster_footfall_analysis):   *)
(* the data fields are None.                                               *)
WestminsterFootfallAnalysis ==
    [boundary |-> "None", tube_stations |-> "None", bus_stops |-> "None",
     premises |-> "None", hex_grid |-> "None", optimizer |-> "None"]

(* run_analysis calls made and completed, optimize_bin_sensors calls made   *)
(* and refused                                                             *)
NoCalls ==
    [run_analysis |-> 0, completed |-> 0, optimize_bin_sensors |-> 0,
     refused |-> 0]

(* min_distance_m: float = 50 *)
DefaultMinDistance == 50

(* The analysis object as constructed, no optimizer call under way *)
FullAtRest ==
    /\ bins_proj = <<>>
    /\ min_distance_m = DefaultMinDistance
    /\ full_pc = "idle"
    /\ analysis = WestminsterFootfallAnalysis
    /\ analysis_pc = 0
    /\ calls = NoCalls
    /\ outcome = "none"

(* No grid and no bins in the pipeline *)
PipelineAtRest ==
    /\ cells = <<>>
    /\ n_categories = NumLabels
    /\ cat_pc = "scored"
    /\ bins = <<>>
    /\ n_sensors = 0
    /\ opt_pc = "loaded"
    /\ selected = <<>>
    /\ target_per_category = <<>>

(* N_FOOTFALL_CATEGORIES: small counts, the label count, and counts above  *)
(* the label count.                                                        *)
CategoryCountChoices == (1..MaxK) \cup {NumLabels, NumLabels + 1, 2 * NumLabels}

InitCategorize ==
    /\ cells \in ScoredCellLists
    /\ n_categories \in CategoryCountChoices
    /\ cat_pc = "scored"
    /\ bins = <<>>
    /\ n_sensors = 0
    /\ opt_pc = "loaded"
    /\ selected = <<>>
    /\ target_per_category = <<>>
    /\ GridAtRest
    /\ ServerAtRest
    /\ FullAtRest

CategorizeCells ==
    /\ cat_pc = "scored"
    /\ LET r == categorize_cells(cells, n_categories)
       IN  /\ cells' = r.cells
           /\ cat_pc' = IF r.raised THEN "error" ELSE "done"
    /\ UNCHANGED <<n_categories, bins, n_sensors, opt_pc, selected,
                   target_per_category>>
    /\ UNCHANGED <<gridVars, srvVars, fullVars>>

NextCategorize == CategorizeCells

SpecCategorize == InitCategorize /\ [][NextCategorize]_vars

----------------------------------------------------------------------------
(* BinLocation as load_bins_from_csv creates it: no cell, not selected *)

BinLocation(id, lat, lon) ==
    [bin_id |-> id, lat |-> lat, lon |-> lon, cell_id |-> NoCell,
     footfall_category |-> 0, footfall_score |-> 0,
     selected_for_sensor |-> FALSE, selection_rank |-> 0]

(* Config.GRID_RESOLUTION (0.001 degrees), in lattice units *)
GRID_RESOLUTION == 2

(* Point.distance_to, squared: sqrt is monotone, so comparing squares      *)
(* compares distances.                                                     *)
Dist2(lat1, lon1, lat2, lon2) ==
    (lat1 - lat2) * (lat1 - lat2) + (lon1 - lon2) * (lon1 - lon2)

(* Variant: the scan keeps the farthest cell *)
NearestCellFarthest(b, cs) ==
    IF cs = <<>> THEN 0
    ELSE CHOOSE e \in 1..Len(cs) :
            \A f \in 1..Len(cs) :
                LET de == Dist2(b.lat, b.lon, cs[e].center_lat, cs[e].center_lon)
                    df == Dist2(b.lat, b.lon, cs[f].center_lat, cs[f].center_lon)
                IN  de > df \/ (de = df /\ e <= f)

(* The linear scan of assign_bins_to_cells: the index of the first cell at *)
(* minimum distance from bin b (dist < min_dist is strict), 0 when the     *)
(* cell list is empty (nearest_cell is None).                              *)
NearestCell(b, cs) ==
    IF cs = <<>> THEN 0
    ELSE CHOOSE e \in 1..Len(cs) :
            \A f \in 1..Len(cs) :
                LET de == Dist2(b.lat, b.lon, cs[e].center_lat, cs[e].center_lon)
                    df == Dist2(b.lat, b.lon, cs[f].center_lat, cs[f].center_lon)
                IN  de < df \/ (de = df /\ e <= f)

(* assign_bins_to_cells(bins, cells, config): a bin is linked when          *)
(* min_dist < GRID_RESOLUTION * 2 and then inherits the cell's fields.     *)
assign_bins_to_cells(bs, cs) ==
    List([i \in 1..Len(bs) |->
        LET e == NearestCell(bs[i], cs)
        IN  IF e # 0 /\ Dist2(bs[i].lat, bs[i].lon,
                              cs[e].center_lat, cs[e].center_lon)
                          < (GRID_RESOLUTION * 2) * (GRID_RESOLUTION * 2)
            THEN [bs[i] EXCEPT !.cell_id = cs[e].cell_id,
                               !.footfall_category = cs[e].footfall_category,
                               !.footfall_score = cs[e].footfall_score]
            ELSE bs[i]])

----------------------------------------------------------------------------
(* optimize_sensor_placement *)

(* min(20, count): the per-category floor *)
MinPerCategory == 20

(* The indices of bs from i on that are in keep, in list order *)
FilterIdx(bs, keep, i) ==
    SelectSeq(List([j \in 1..Len(bs) |-> j]), LAMBDA j : j >= i /\ j \in keep)

(* Variant: every bin taken as assigned *)
AssignedBinsUnfiltered(bs) == FilterIdx(bs, 1..Len(bs), 1)

(* assigned_bins = [b for b in bins if b.cell_id], as indices into bins *)
AssignedBins(bs) ==
    FilterIdx(bs, {i \in 1..Len(bs) : bs[i].cell_id # NoCell}, 1)

(* category_counts *)
CategoryKeys(bs, asg) ==
    {bs[asg[k]].footfall_category : k \in 1..Len(asg)}

CategoryCounts(bs, asg) ==
    Dict([c \in CategoryKeys(bs, asg) |->
        Cardinality({k \in 1..Len(asg) : bs[asg[k]].footfall_category = c})])

(* Square roots to three decimals: floor(1000 * sqrt(c)) *)
SqrtScale == 1000

RECURSIVE ISqrtSearch(_, _, _)
ISqrtSearch(x, lo, hi) ==
    IF lo + 1 >= hi THEN lo
    ELSE LET mid == (lo + hi) \div 2
         IN  IF mid * mid <= x THEN ISqrtSearch(x, mid, hi)
                               ELSE ISqrtSearch(x, lo, mid)

(* The search stays below 46340, whose square still fits 32 bits *)
SqrtLo(c) ==
    ISqrtSearch(c * SqrtScale * SqrtScale, 0, Min(c * SqrtScale, 46339) + 1)
SqrtHi(c) ==
    IF SqrtLo(c) * SqrtLo(c) = c * SqrtScale * SqrtScale
    THEN SqrtLo(c) ELSE SqrtLo(c) + 1

RECURSIVE SumOver(_, _)
SumOver(f, S) ==
    IF S = {} THEN 0
    ELSE LET x == CHOOSE y \in S : TRUE IN f[x] + SumOver(f, S \ {x})

(* int(n_sensors * math.sqrt(count) / total_sqrt) is computed in floating  *)
(* point.  Its real value lies between the two quotients below (math.sqrt  *)
(* is exact on perfect squares, and elsewhere lies strictly between its    *)
(* three-decimal bounds), so the integer part the code obtains is one of   *)
(* the integers from SqrtTargetLo to SqrtTargetHi: usually one value, two  *)
(* next to an integer quotient, where rounding decides                     *)
(* (int(7 * sqrt(8) / sqrt(8)) is 6).                                      *)
SqrtTargetLo(n, cnt) ==
    LET hi  == Dict([k \in DOMAIN cnt |-> SqrtHi(cnt[k])])
        sum == SumOver(hi, DOMAIN cnt)
    IN  Dict([c \in DOMAIN cnt |-> (n * SqrtLo(cnt[c])) \div sum])

SqrtTargetHi(n, cnt) ==
    LET lo  == Dict([k \in DOMAIN cnt |-> SqrtLo(cnt[k])])
        sum == SumOver(lo, DOMAIN cnt)
    IN  Dict([c \in DOMAIN cnt |-> (n * SqrtHi(cnt[c])) \div sum])

(* Variant: no per-category floor *)
FloorTargetWithoutFloor(t, count) == Min(t, count)

(* target = max(target, min(20, count)); min(target, count) *)
FloorTarget(t, count) == Min(Max(t, Min(MinPerCategory, count)), count)

(* One pass of the for loop inside "while current_total < n_sensors":      *)
(* categories in ascending order, one increment each where the target is   *)
(* below the count, leaving the loop when the total reaches n_sensors.     *)
RECURSIVE AdjustPass(_, _, _, _, _)
AdjustPass(tg, cnt, todo, total, n) ==
    IF todo = {} THEN [target |-> tg, total |-> total]
    ELSE LET c == CHOOSE x \in todo : \A y \in todo : x <= y
         IN  IF tg[c] < cnt[c]
             THEN IF total + 1 >= n
                  THEN [target |-> [tg EXCEPT ![c] = @ + 1], total |-> total + 1]
                  ELSE AdjustPass([tg EXCEPT ![c] = @ + 1], cnt,
                                  todo \ {c}, total + 1, n)
             ELSE AdjustPass(tg, cnt, todo \ {c}, total, n)

(* The while loop.  A pass that increments nothing would repeat forever:   *)
(* looping is TRUE then.                                                   *)
RECURSIVE AdjustToTotal(_, _, _, _)
AdjustToTotal(tg, cnt, total, n) ==
    IF total >= n THEN [target |-> tg, looping |-> FALSE]
    ELSE LET r == AdjustPass(tg, cnt, DOMAIN tg, total, n)
         IN  IF r.total = total THEN [target |-> tg, looping |-> TRUE]
             ELSE AdjustToTotal(r.target, cnt, r.total, n)

(* Variant: the targets are left as the floor made them *)
TargetPerCategoryUnadjusted(t, cnt, n) ==
    [target  |-> Dict([c \in DOMAIN cnt |-> FloorTarget(t[c], cnt[c])]),
     looping |-> FALSE]

(* target_per_category after the floor and the adjustment, for the values  *)
(* t[c] of int(n_sensors * math.sqrt(count) / total_sqrt)                  *)
TargetPerCategory(t, cnt, n) ==
    LET tg == Dict([c \in DOMAIN cnt |-> FloorTarget(t[c], cnt[c])])
    IN  AdjustToTotal(tg, cnt, SumOver(tg, DOMAIN tg), n)

(* cat_bins = [b for b in assigned_bins if b.footfall_category == cat]     *)
CatBins(bs, asg, cat) ==
    FilterIdx(bs, {i \in 1..Len(bs) :
                     bs[i].cell_id # NoCell /\ bs[i].footfall_category = cat}, 1)

(* Variant: the sort in descending order *)
SortPosByLatLonDescending(bs, cb, k) ==
    1 + Cardinality({j \in 1..Len(cb) :
            LET a == bs[cb[j]]
                b == bs[cb[k]]
            IN  \/ a.lat > b.lat
                \/ a.lat = b.lat /\ a.lon > b.lon
                \/ a.lat = b.lat /\ a.lon = b.lon /\ j < k})

(* cat_bins.sort(key=lambda b: (b.lat, b.lon)): stable, tuples compare     *)
(* lexicographically.  Position (1-based) of cb[k] after the sort.         *)
SortPosByLatLon(bs, cb, k) ==
    1 + Cardinality({j \in 1..Len(cb) :
            LET a == bs[cb[j]]
                b == bs[cb[k]]
            IN  \/ a.lat < b.lat
                \/ a.lat = b.lat /\ a.lon < b.lon
                \/ a.lat = b.lat /\ a.lon = b.lon /\ j < k})

SortedCatBins(bs, cb) ==
    LET pos == List([k \in 1..Len(cb) |-> SortPosByLatLon(bs, cb, k)])
    IN  List([p \in 1..Len(cb) |-> cb[CHOOSE k \in 1..Len(cb) : pos[k] = p]])

(* Variant: the step rounded up *)
StrideStepCeiling(len, target) == Max(1, (len + target - 1) \div target)

(* step = max(1, len(cat_bins) // target); the 0-based selected_indices    *)
(* are the first target elements of range(0, len(cat_bins), step).         *)
StrideStep(len, target) == Max(1, len \div target)

SelectedIndices(len, target) ==
    LET step == StrideStep(len, target)
        m    == Min(target, (len + step - 1) \div step)
    IN  List([k \in 1..m |-> (k - 1) * step])

(* The bins (indices into bins) selected over all categories, in the order *)
(* the selection loop appends them: categories ascending, stride order.    *)
RECURSIVE SelectLoop(_, _, _, _)
SelectLoop(bs, asg, tg, todo) ==
    IF todo = {} THEN <<>>
    ELSE LET cat == CHOOSE x \in todo : \A y \in todo : x <= y
             scb == SortedCatBins(bs, CatBins(bs, asg, cat))
             idx == SelectedIndices(Len(scb), tg[cat])
         IN  [k \in 1..Len(idx) |-> scb[idx[k] + 1]]
                 \o SelectLoop(bs, asg, tg, todo \ {cat})

(* Variant: ranks counted from 0 *)
MarkSelectedFromZero(bs, sel) ==
    List([i \in 1..Len(bs) |->
        LET at == {k \in 1..Len(sel) : sel[k] = i}
        IN  IF at = {} THEN bs[i]
            ELSE [bs[i] EXCEPT !.selected_for_sensor = TRUE,
                               !.selection_rank =
                                   (CHOOSE k \in at : \A j \in at : j <= k) - 1]])

(* selected_for_sensor = True and selection_rank = rank, rank counting     *)
(* from 1 along sel.                                                       *)
MarkSelected(bs, sel) ==
    List([i \in 1..Len(bs) |->
        LET at == {k \in 1..Len(sel) : sel[k] = i}
        IN  IF at = {} THEN bs[i]
            ELSE [bs[i] EXCEPT !.selected_for_sensor = TRUE,
                               !.selection_rank =
                                   CHOOSE k \in at : \A j \in at : j <= k]])

(* Variant: targets proportional to the counts, not to their square roots *)
TargetChoicesLinear(n, cnt) ==
    LET total == SumOver(cnt, DOMAIN cnt)
    IN  {Dict([c \in DOMAIN cnt |-> (n * cnt[c]) \div total])}

(* The values int(n_sensors * math.sqrt(count) / total_sqrt) can take, one *)
(* per category, as functions over the categories of cnt.                  *)
TargetChoices(n, cnt) ==
    LET D  == DOMAIN cnt
        lo == SqrtTargetLo(n, cnt)
        hi == SqrtTargetHi(n, cnt)
        W  == IF D = {} THEN 0
              ELSE CHOOSE w \in 0..n : /\ \A c \in D : hi[c] - lo[c] <= w
                                       /\ \E c \in D : hi[c] - lo[c] = w
    IN  {Dict([c \in D |-> lo[c] + d[c]]) :
            d \in {e \in [D -> 0..W] : \A c \in D : lo[c] + e[c] <= hi[c]}}

(* Variant: no early return when fewer bins are assigned than n_sensors *)
OptimizeWithoutSelectAll(bs, n, t) ==
    LET asg  == AssignedBins(bs)
        cnt  == CategoryCounts(bs, asg)
        adj  == TargetPerCategory(t, cnt, n)
        zero == {c \in DOMAIN cnt : adj.target[c] = 0}
        todo == {c \in DOMAIN cnt : \A z \in zero : c < z}
        sel  == SelectLoop(bs, asg, adj.target, todo)
    IN  IF adj.looping
        THEN [bins |-> bs, selected |-> <<>>, target |-> adj.target,
              outcome |-> "looping"]
        ELSE [bins |-> MarkSelected(bs, sel), selected |-> sel,
              target |-> adj.target,
              outcome |-> IF zero = {} THEN "returned" ELSE "raised"]

(* optimize_sensor_placement(bins, n_sensors, n_categories) with the       *)
(* floating-point targets t.  target is target_per_category as the         *)
(* adjustment leaves it (empty when the function returns before creating   *)
(* it).  outcome is "returned", "looping" (the        *)
(* adjustment never ends) or "raised" (ZeroDivisionError in the stride of  *)
(* the first category whose target is 0, the categories before it being    *)
(* marked already).                                                        *)
optimize_sensor_placement(bs, n, t) ==
    LET asg == AssignedBins(bs)
    IN  IF Len(asg) < n
        THEN [bins |-> MarkSelected(bs, asg), selected |-> asg,
              target |-> <<>>, outcome |-> "returned"]
        ELSE LET cnt  == CategoryCounts(bs, asg)
                 adj  == TargetPerCategory(t, cnt, n)
                 zero == {c \in DOMAIN cnt : adj.target[c] = 0}
                 todo == {c \in DOMAIN cnt : \A z \in zero : c < z}
                 sel  == SelectLoop(bs, asg, adj.target, todo)
             IN  IF adj.looping
                 THEN [bins |-> bs, selected |-> <<>>, target |-> adj.target,
                       outcome |-> "looping"]
                 ELSE [bins |-> MarkSelected(bs, sel), selected |-> sel,
                       target |-> adj.target,
                       outcome |-> IF zero = {} THEN "returned" ELSE "raised"]

----------------------------------------------------------------------------
(* calculate_footfall_scores.  Positions are in half-resolution units, so  *)
(* the default radii 0.005, 0.002 and 0.0015 degree are 10, 4 and 3.  The  *)
(* raw scores are kept as integers: tube_score in units of                 *)
(* 1 / TUBE_INFLUENCE_RADIUS^2, bus_score and premises_score in units of   *)
(* 1 / radius.  The normalized components are fractions num / den.         *)

TUBE_INFLUENCE_RADIUS     == 10
BUS_INFLUENCE_RADIUS      == 4
PREMISES_INFLUENCE_RADIUS == 3

(* TUBE_WEIGHT, BUS_WEIGHT, PREMISES_WEIGHT in hundredths *)
TUBE_WEIGHT     == 45
BUS_WEIGHT      == 30
PREMISES_WEIGHT == 25

TubeStation(lat, lon, usage) == [lat |-> lat, lon |-> lon, annual_usage |-> usage]
BusStop(lat, lon, freq) == [lat |-> lat, lon |-> lon, frequency |-> freq]
LicensedPremises(lat, lon, cap) == [lat |-> lat, lon |-> lon, capacity |-> cap]

(* Point.distance_to.  The square root is exact here because the scored    *)
(* cells and the points of interest lie on one line of the lattice.        *)
distance_to(lat1, lon1, lat2, lon2) ==
    LET d2 == Dist2(lat1, lon1, lat2, lon2)
    IN  ISqrtSearch(d2, 0, d2 + 1)

(* Variant: no cutoff at the radius *)
InRadiusAlways(dist, radius) == TRUE

(* if dist < config.X_INFLUENCE_RADIUS *)
InRadius(dist, radius) == dist < radius

(* tube.annual_usage * (1 - dist / R) ** 2, times R^2 *)
TubeInfluence(usage, dist, radius) ==
    usage * (radius - dist) * (radius - dist)

(* Variant: the falloff measured from the radius inwards *)
LinearInfluenceFromEdge(weight, dist, radius) == weight * (dist - radius)

(* bus.frequency * (1 - dist / R) and p.capacity * (1 - dist / R), times R *)
LinearInfluence(weight, dist, radius) == weight * (radius - dist)

(* cell.tube_score after the inner loop over tubes *)
RECURSIVE TubeScore(_, _, _)
TubeScore(c, ts, k) ==
    IF k > Len(ts) THEN c.tube_score
    ELSE LET dist == distance_to(c.center_lat, c.center_lon, ts[k].lat, ts[k].lon)
         IN  (IF InRadius(dist, TUBE_INFLUENCE_RADIUS)
              THEN TubeInfluence(ts[k].annual_usage, dist, TUBE_INFLUENCE_RADIUS)
              ELSE 0) + TubeScore(c, ts, k + 1)

RECURSIVE BusScore(_, _, _)
BusScore(c, bs, k) ==
    IF k > Len(bs) THEN c.bus_score
    ELSE LET dist == distance_to(c.center_lat, c.center_lon, bs[k].lat, bs[k].lon)
         IN  (IF InRadius(dist, BUS_INFLUENCE_RADIUS)
              THEN LinearInfluence(bs[k].frequency, dist, BUS_INFLUENCE_RADIUS)
              ELSE 0) + BusScore(c, bs, k + 1)

RECURSIVE PremisesScore(_, _, _)
PremisesScore(c, ps, k) ==
    IF k > Len(ps) THEN c.premises_score
    ELSE LET dist == distance_to(c.center_lat, c.center_lon, ps[k].lat, ps[k].lon)
         IN  (IF InRadius(dist, PREMISES_INFLUENCE_RADIUS)
              THEN LinearInfluence(ps[k].capacity, dist, PREMISES_INFLUENCE_RADIUS)
              ELSE 0) + PremisesScore(c, ps, k + 1)

(* max_x = max(max_x, cell.x_score) over the cells, starting from 0 *)
RECURSIVE MaxFrom0(_, _)
MaxFrom0(xs, k) ==
    IF k > Len(xs) THEN 0 ELSE Max(xs[k], MaxFrom0(xs, k + 1))

(* x_norm = cell.x_score / max_x if max_x > 0 else 0 *)
Normalize(x, xs) ==
    LET max_x == MaxFrom0(xs, 1)
    IN  IF max_x > 0 THEN [num |-> x, den |-> max_x]
                     ELSE [num |-> 0, den |-> 1]

(* calculate_footfall_scores(cells, tubes, buses, premises, config).       *)
(* footfall_score is kept in units of 1 / (100 * dt * db * dp), dt, db and *)
(* dp being the denominators of the three normalized components, which    *)
(* are the same for every cell of the run.                                 *)
calculate_footfall_scores(cs, ts, bs, ps) ==
    LET raw == List([e \in 1..Len(cs) |->
                     [cs[e] EXCEPT !.tube_score = TubeScore(cs[e], ts, 1),
                                   !.bus_score = BusScore(cs[e], bs, 1),
                                   !.premises_score = PremisesScore(cs[e], ps, 1)]])
        tx  == List([e \in 1..Len(cs) |-> raw[e].tube_score])
        bx  == List([e \in 1..Len(cs) |-> raw[e].bus_score])
        px  == List([e \in 1..Len(cs) |-> raw[e].premises_score])
        nrm == List([e \in 1..Len(cs) |->
                     [tube_norm     |-> Normalize(tx[e], tx),
                      bus_norm      |-> Normalize(bx[e], bx),
                      premises_norm |-> Normalize(px[e], px)]])
    IN  [cells |-> List([e \in 1..Len(cs) |->
                     [raw[e] EXCEPT !.footfall_score =
                          TUBE_WEIGHT * nrm[e].tube_norm.num
                              * nrm[e].bus_norm.den * nrm[e].premises_norm.den
                        + BUS_WEIGHT * nrm[e].bus_norm.num
                              * nrm[e].tube_norm.den * nrm[e].premises_norm.den
                        + PREMISES_WEIGHT * nrm[e].premises_norm.num
                              * nrm[e].tube_norm.den * nrm[e].bus_norm.den]]),
         norms |-> nrm]

----------------------------------------------------------------------------
(* create_grid.  Coordinates are in units of 0.0001 degree here, so that   *)
(* the vertices of the Westminster boundary are integers; the comparisons  *)
(* of point_in_polygon are made on exact values, except where the two      *)
(* sides of the comparison are equal: there the floating-point rounding    *)
(* of the right-hand side decides, and both results are allowed.           *)

(* westminster_boundary, as (lon, lat) pairs *)
westminster_boundary ==
    << <<-1634, 515275>>, <<-1343, 515246>>, <<-1165, 515180>>,
       <<-1150, 515000>>, <<-1240, 514870>>, <<-1450, 514850>>,
       <<-1600, 514867>>, <<-1800, 515000>>, <<-2000, 515100>>,
       <<-1900, 515200>>, <<-1634, 515275>> >>

(* The test of the ray casting loop for edge (j, i):                       *)
(* (yi > y) != (yj > y) and x < (xj - xi) * (y - yi) / (yj - yi) + xi      *)
(* A lattice point for which the two sides are equal on edge (j, i) *)
OnEdge(x, y, pi, pj) ==
    /\ (pi[2] > y) # (pj[2] > y)
    /\ (x - pi[1]) * (pj[2] - pi[2]) = (pj[1] - pi[1]) * (y - pi[2])

EdgeCrossed(x, y, pi, pj, roundedUp) ==
    LET xi == pi[1]
        yi == pi[2]
        xj == pj[1]
        yj == pj[2]
    IN  /\ (yi > y) # (yj > y)
        /\ \/ IF yj - yi > 0
              THEN (x - xi) * (yj - yi) < (xj - xi) * (y - yi)
              ELSE (x - xi) * (yj - yi) > (xj - xi) * (y - yi)
           \/ OnEdge(x, y, pi, pj) /\ roundedUp

(* point_in_polygon: inside is toggled once per crossed edge *)
point_in_polygon(x, y, polygon, roundedUp) ==
    LET n == Len(polygon)
        crossed == {i \in 1..n :
                       EdgeCrossed(x, y, polygon[i],
                                   polygon[IF i = 1 THEN n ELSE i - 1],
                                   roundedUp)}
    IN  Cardinality(crossed) % 2 = 1

is_in_westminster(lat, lon, roundedUp) ==
    IF lat < 514850 \/ lat > 515350 THEN FALSE
    ELSE IF lon < -2000 \/ lon > -1100 THEN FALSE
    ELSE point_in_polygon(lon, lat, westminster_boundary, roundedUp)

(* The values a loop "v = lo; while v <= hi: ...; v += res" visits, for    *)
(* res > 0.  The sums are floating point: a value that is hi exactly may   *)
(* come out just above hi, so the loop visits it or not (atMax); the first *)
(* value is lo itself and is always visited.                               *)
AxisValues(lo, hi, res, atMax) ==
    IF lo > hi THEN <<>>
    ELSE LET n == (hi - lo) \div res + 1
             m == IF n > 1 /\ lo + (n - 1) * res = hi /\ ~atMax
                  THEN n - 1 ELSE n
         IN  [k \in 1..m |-> lo + (k - 1) * res]

(* The lattice points in scan order: lat outer, lon inner, both ascending *)
LatticeScan(cfg, latAtMax, lonAtMax) ==
    LET lats == AxisValues(cfg.MIN_LAT, cfg.MAX_LAT, cfg.GRID_RESOLUTION, latAtMax)
        lons == AxisValues(cfg.MIN_LON, cfg.MAX_LON, cfg.GRID_RESOLUTION, lonAtMax)
        w    == Len(lons)
    IN  [p \in 1..(Len(lats) * w) |->
            <<lats[((p - 1) \div w) + 1], lons[((p - 1) % w) + 1]>>]

(* Variant: cell_id counts the lattice points scanned *)
CellIdPerLatticePoint(kept, scanned) == scanned

(* cell_id when a cell is appended: the number of cells kept before it,    *)
(* of the scanned lattice points before it.                                *)
CellId(kept, scanned) == kept

(* The scanned lattice points that lie on an edge of the boundary *)
OnBoundary(pts) ==
    {pts[p] : p \in {q \in 1..Len(pts) :
        \E i \in 1..Len(westminster_boundary) :
            OnEdge(pts[q][2], pts[q][1], westminster_boundary[i],
                   westminster_boundary[IF i = 1 THEN Len(westminster_boundary)
                                        ELSE i - 1])}}

(* The outcomes the rounding can have on the lattice points of a scan *)
Roundings(cfg, latAtMax, lonAtMax) ==
    IF cfg.GRID_RESOLUTION <= 0 THEN {{}}
    ELSE SUBSET OnBoundary(LatticeScan(cfg, latAtMax, lonAtMax))

(* create_grid(config).  With a resolution <= 0 neither loop variable      *)
(* grows: once the outer loop is entered the function never returns.       *)
(* roundedUp holds the lattice points on the boundary for which the        *)
(* rounding makes the comparison of point_in_polygon true.                 *)
create_grid(cfg, latAtMax, lonAtMax, roundedUp) ==
    IF cfg.MIN_LAT > cfg.MAX_LAT
    THEN [cells |-> <<>>, outcome |-> "returned"]
    ELSE IF cfg.GRID_RESOLUTION <= 0
    THEN [cells |-> <<>>, outcome |-> "looping"]
    ELSE LET pts  == LatticeScan(cfg, latAtMax, lonAtMax)
             kept == FilterIdx(pts, {p \in 1..Len(pts) :
                         is_in_westminster(pts[p][1], pts[p][2],
                                           pts[p] \in roundedUp)}, 1)
         IN  [cells |-> List([e \in 1..Len(kept) |->
                            GridCell(CellId(e - 1, kept[e] - 1),
                                     pts[kept[e]][1], pts[kept[e]][2], 0)]),
              outcome |-> "returned"]

----------------------------------------------------------------------------
(* SpecPlacement: assign_bins_to_cells, then optimize_sensor_placement,    *)
(* on bins loaded over a categorized grid.                                 *)

MaxRuns         == 2    \* runs of bins in a bin list
BigRun          == 21   \* bins in a long run (a short run is one bin)
MaxFewSensors   == 3    \* n_sensors ranges over 0..MaxFewSensors ...
MaxManySensors  == 23   \* ... and over MinPerCategory..MaxManySensors

(* Three cells of the lattice, scored and categorized with two categories: *)
(* cell 0 at (0,0) gets category 1, cells 1 at (0,2) and 2 at (2,0) get    *)
(* category 0.                                                             *)
PlacementCategories == 2

PlacementCells ==
    categorize_cells(<<GridCell(0, 0, 0, 1), GridCell(1, 0, 2, 0),
                       GridCell(2, 2, 0, 0)>>, PlacementCategories).cells

(* Where bins stand: on cell 0, next to cell 1, next to cell 2, and out of *)
(* reach of every cell.                                                    *)
BinSites == {<<0, 0>>, <<0, 3>>, <<3, 0>>, <<0, 8>>}

RunLists ==
    UNION {[1..r -> BinSites \X {1, BigRun}] : r \in 0..MaxRuns}

(* The sites of the bins of a run list, run after run *)
RECURSIVE ExpandRuns(_, _)
ExpandRuns(runs, k) ==
    IF k > Len(runs) THEN <<>>
    ELSE [j \in 1..runs[k][2] |-> runs[k][1]] \o ExpandRuns(runs, k + 1)

LoadedBins(runs) ==
    LET sites == ExpandRuns(runs, 1)
    IN  List([i \in 1..Len(sites) |->
                 BinLocation(i - 1, sites[i][1], sites[i][2])])

SensorChoices == (0..MaxFewSensors) \cup (MinPerCategory..MaxManySensors)

InitPlacement ==
    /\ cells = PlacementCells
    /\ n_categories = PlacementCategories
    /\ cat_pc = "done"
    /\ \E runs \in RunLists : bins = LoadedBins(runs)
    /\ n_sensors \in SensorChoices
    /\ opt_pc = "loaded"
    /\ selected = <<>>
    /\ target_per_category = <<>>
    /\ GridAtRest
    /\ ServerAtRest
    /\ FullAtRest

AssignBinsToCells ==
    /\ opt_pc = "loaded"
    /\ bins' = assign_bins_to_cells(bins, cells)
    /\ opt_pc' = "assigned"
    /\ UNCHANGED <<cells, n_categories, cat_pc, n_sensors, selected,
                   target_per_category>>
    /\ UNCHANGED <<gridVars, srvVars, fullVars>>

OptimizeSensorPlacement ==
    /\ opt_pc = "assigned"
    /\ \E t \in TargetChoices(n_sensors,
                              CategoryCounts(bins, AssignedBins(bins))) :
          LET r == optimize_sensor_placement(bins, n_sensors, t)
          IN  /\ bins' = r.bins
              /\ selected' = r.selected
              /\ target_per_category' = r.target
              /\ opt_pc' = IF r.outcome = "returned" THEN "optimized"
                           ELSE r.outcome
    /\ UNCHANGED <<cells, n_categories, cat_pc, n_sensors>>
    /\ UNCHANGED <<gridVars, srvVars, fullVars>>

NextPlacement == AssignBinsToCells \/ OptimizeSensorPlacement

SpecPlacement == InitPlacement /\ [][NextPlacement]_vars

----------------------------------------------------------------------------
(* SpecScenario: assign_bins_to_cells, then optimize_sensor_placement, on  *)
(* a grid of three categories whose bin counts are around 4, 100 and 4,    *)
(* with n_sensors around 30 and around the number of bins (fewer sensors   *)
(* than assigned bins, as many, and more).                                 *)

ScenarioSlack == 1      \* counts and n_sensors vary by up to ScenarioSlack

(* The middle of the range: bin counts of categories 0, 1, 2, n_sensors *)
Scenario == [counts |-> <<4, 100, 4>>, n_sensors |-> 30]

(* Three cells in a row, scored 0, 1, 2: categories 0, 1, 2 *)
ScenarioCells ==
    categorize_cells(<<GridCell(0, 0, 0, 0), GridCell(1, 0, 2, 1),
                       GridCell(2, 0, 4, 2)>>, Len(Scenario.counts)).cells

(* The bin list, in file order: the bins next to cell 2, a bin out of      *)
(* reach, half of the bins of cell 1 north of it, the bins on cell 0, the  *)
(* other half of the bins of cell 1 south of it.                           *)
ScenarioBins(a, b, c) ==
    LoadedBins(<< <<<<0, 5>>, c>>, <<<<0, 9>>, 1>>, <<<<1, 2>>, b \div 2>>,
                  <<<<0, 0>>, a>>, <<<<-1, 2>>, b - (b \div 2)>> >>)

Around(v) == (v - ScenarioSlack)..(v + ScenarioSlack)

InitScenario ==
    /\ cells = ScenarioCells
    /\ n_categories = Len(Scenario.counts)
    /\ cat_pc = "done"
    /\ \E a \in Around(Scenario.counts[1]), b \in Around(Scenario.counts[2]),
          c \in Around(Scenario.counts[3]) :
          bins = ScenarioBins(a, b, c)
    /\ n_sensors \in Around(Scenario.n_sensors)
                     \cup Around(Scenario.counts[1] + Scenario.counts[2]
                                     + Scenario.counts[3])
    /\ opt_pc = "loaded"
    /\ selected = <<>>
    /\ target_per_category = <<>>
    /\ GridAtRest
    /\ ServerAtRest
    /\ FullAtRest

NextScenario == AssignBinsToCells \/ OptimizeSensorPlacement

SpecScenario == InitScenario /\ [][NextScenario]_vars

----------------------------------------------------------------------------
(* SpecAssign: assign_bins_to_cells alone, over the categorized grid or an *)
(* empty cell list, on short bin lists whose sites include a bin at equal  *)
(* distance from the three cells and a bin at exactly 2 * GRID_RESOLUTION  *)
(* from its nearest cell.                                                  *)

MaxBins == 3            \* bins in a bin list of SpecAssign

AssignSites == {<<0, 0>>, <<0, 3>>, <<1, 1>>, <<0, 6>>, <<0, 8>>}

AssignBinLists ==
    UNION {[1..m -> AssignSites] : m \in 0..MaxBins}

InitAssign ==
    /\ cells \in {<<>>, PlacementCells}
    /\ n_categories = PlacementCategories
    /\ cat_pc = "done"
    /\ \E sites \in AssignBinLists :
          bins = List([i \in 1..Len(sites) |->
                          BinLocation(i - 1, sites[i][1], sites[i][2])])
    /\ n_sensors = 0
    /\ opt_pc = "loaded"
    /\ selected = <<>>
    /\ target_per_category = <<>>
    /\ GridAtRest
    /\ ServerAtRest
    /\ FullAtRest

NextAssign == AssignBinsToCells

SpecAssign == InitAssign /\ [][NextAssign]_vars

----------------------------------------------------------------------------
(* SpecScore: calculate_footfall_scores on fresh cells along one row of    *)
(* the lattice, with points of interest on the same row: on a cell, inside *)
(* each radius, exactly at each radius of the first cell, and beyond.      *)

MaxScoreCells == 3      \* cells in a row
MaxPois       == 2      \* points of interest, all types together
MaxWeight     == 1      \* annual_usage, frequency, capacity are 0..MaxWeight

ScoreCellLists ==
    {List([i \in 1..n |-> GridCell(i - 1, 0, GRID_RESOLUTION * (i - 1), 0)]) :
         n \in 1..MaxScoreCells}

PoiLons == {0, 3, 4, 10, 16}

PoiLists ==
    UNION {[1..m -> {"tube", "bus", "premises"} \X PoiLons \X (0..MaxWeight)] :
               m \in 0..MaxPois}

PoisOfKind(pois, kind) == SelectSeq(pois, LAMBDA p : p[1] = kind)

InitScore ==
    /\ cells \in ScoreCellLists
    /\ n_categories = NumLabels
    /\ cat_pc = "created"
    /\ bins = <<>>
    /\ n_sensors = 0
    /\ opt_pc = "loaded"
    /\ selected = <<>>
    /\ target_per_category = <<>>
    /\ config = DefaultConfig
    /\ grid_pc = "created"
    /\ \E pois \in PoiLists :
          LET t == PoisOfKind(pois, "tube")
              b == PoisOfKind(pois, "bus")
              p == PoisOfKind(pois, "premises")
          IN  /\ tubes = List([k \in 1..Len(t) |-> TubeStation(0, t[k][2], t[k][3])])
              /\ buses = List([k \in 1..Len(b) |-> BusStop(0, b[k][2], b[k][3])])
              /\ premises =
                     List([k \in 1..Len(p) |-> LicensedPremises(0, p[k][2], p[k][3])])
    /\ norms = <<>>
    /\ ServerAtRest
    /\ FullAtRest

CalculateFootfallScores ==
    /\ cat_pc = "created"
    /\ LET r == calculate_footfall_scores(cells, tubes, buses, premises)
       IN  /\ cells' = r.cells
           /\ norms' = r.norms
    /\ cat_pc' = "scored"
    /\ UNCHANGED <<n_categories, bins, n_sensors, opt_pc, selected,
                   target_per_category>>
    /\ UNCHANGED <<config, grid_pc, tubes, buses, premises>>
    /\ UNCHANGED <<srvVars, fullVars>>

NextScore == CalculateFootfallScores

SpecScore == InitScore /\ [][NextScore]_vars

----------------------------------------------------------------------------
(* SpecGrid: create_grid over configurations whose bounding box is the     *)
(* default one, a part of it, a single row or column, or empty, and whose  *)
(* resolution is positive, zero or negative.                               *)

GridStep    == 100      \* coarsest unit of GRID_RESOLUTION, 0.01 degree
MaxResSteps == 2        \* GRID_RESOLUTION is at most MaxResSteps * GridStep

LatChoices == {514850, 515130, 515350}
LonChoices == {-2000, -1530, -1100}
ResChoices == {-GridStep, 0} \cup {k * GridStep : k \in 1..MaxResSteps}

ConfigChoices ==
    [MIN_LON : LonChoices, MAX_LON : LonChoices,
     MIN_LAT : LatChoices, MAX_LAT : LatChoices,
     GRID_RESOLUTION : ResChoices]

InitGrid ==
    /\ config \in ConfigChoices
    /\ grid_pc = "config"
    /\ cells = <<>>
    /\ n_categories = NumLabels
    /\ cat_pc = "config"
    /\ bins = <<>>
    /\ n_sensors = 0
    /\ opt_pc = "loaded"
    /\ selected = <<>>
    /\ target_per_category = <<>>
    /\ tubes = <<>>
    /\ buses = <<>>
    /\ premises = <<>>
    /\ norms = <<>>
    /\ ServerAtRest
    /\ FullAtRest

CreateGrid ==
    /\ grid_pc = "config"
    /\ \E latAtMax, lonAtMax \in BOOLEAN :
        \E roundedUp \in Roundings(config, latAtMax, lonAtMax) :
          LET r == create_grid(config, latAtMax, lonAtMax, roundedUp)
          IN  /\ cells' = r.cells
              /\ grid_pc' = IF r.outcome = "returned" THEN "created"
                            ELSE r.outcome
              /\ cat_pc' = IF r.outcome = "returned" THEN "created" ELSE cat_pc
    /\ UNCHANGED <<n_categories, bins, n_sensors, opt_pc, selected,
                   target_per_category>>
    /\ UNCHANGED <<config, tubes, buses, premises, norms>>
    /\ UNCHANGED <<srvVars, fullVars>>

NextGrid == CreateGrid

SpecGrid == InitGrid /\ [][NextGrid]_vars

----------------------------------------------------------------------------
(* westminster_footfall_analysis: BinSensorOptimizer.                      *)
(* optimize_sensor_placement works on bins_proj, the bins projected to     *)
(* EPSG:27700; a bin is a row with its coordinates in metres and its       *)
(* footfall_category.  Distances are compared by their squares.            *)

FullBin(x, y, cat) == [x |-> x, y |-> y, footfall_category |-> cat]

(* category_counts = bins.groupby('footfall_category').size(): a Series    *)
(* over the categories present, in ascending order.                        *)
category_counts(bs) ==
    Dict([c \in {bs[i].footfall_category : i \in 1..Len(bs)} |->
        Cardinality({i \in 1..Len(bs) : bs[i].footfall_category = c})])

(* min_per_category = max(20, n_sensors // (2 * self.n_categories)) *)
min_per_category(n, K) == Max(20, n \div (2 * K))

(* (category_weights * n_sensors).astype(int): the integer part of         *)
(* n_sensors * sqrt(count) / sum of the square roots, in floating point.   *)
WeightedTargetChoices(n, cnt) == TargetChoices(n, cnt)

(* Series.argmax() and Series.argmin(): the first position of the largest  *)
(* and of the smallest value.                                              *)
ArgMax(td) ==
    CHOOSE c \in DOMAIN td :
        \A d \in DOMAIN td : td[c] > td[d] \/ (td[c] = td[d] /\ c <= d)

ArgMin(td) ==
    CHOOSE c \in DOMAIN td :
        \A d \in DOMAIN td : td[c] < td[d] \/ (td[c] = td[d] /\ c <= d)

(* while target_distribution.sum() > n_sensors: decrement at argmax *)
RECURSIVE ScaleDown(_, _)
ScaleDown(td, n) ==
    IF SumOver(td, DOMAIN td) > n
    THEN ScaleDown([td EXCEPT ![ArgMax(td)] = @ - 1], n)
    ELSE td

(* while target_distribution.sum() < n_sensors: increment at argmin *)
RECURSIVE ScaleUp(_, _)
ScaleUp(td, n) ==
    IF SumOver(td, DOMAIN td) < n
    THEN ScaleUp([td EXCEPT ![ArgMin(td)] = @ + 1], n)
    ELSE td

(* target_distribution after np.maximum and the two scaling loops, for the *)
(* values t of (category_weights * n_sensors).astype(int)                  *)
target_distribution(t, cnt, n, K) ==
    ScaleUp(ScaleDown(Dict([c \in DOMAIN cnt |->
                               Max(t[c], min_per_category(n, K))]), n), n)

(* np.linalg.norm(coords - centroid), squared and scaled by len(coords)^2: *)
(* the centroid is the mean of the coordinates.                            *)
CentroidDist2(bs, rows, k) ==
    LET n  == Len(rows)
        sx == SumOver([j \in 1..n |-> bs[rows[j]].x], 1..n)
        sy == SumOver([j \in 1..n |-> bs[rows[j]].y], 1..n)
        dx == n * bs[rows[k]].x - sx
        dy == n * bs[rows[k]].y - sy
    IN  dx * dx + dy * dy

(* dists.min(): the distance from row k to the nearest selected row *)
MinDist2(bs, rows, sel, k) ==
    LET d == [j \in 1..Len(sel) |->
                 Dist2(bs[rows[sel[j]]].x, bs[rows[sel[j]]].y,
                       bs[rows[k]].x, bs[rows[k]].y)]
    IN  d[CHOOSE j \in 1..Len(sel) : \A i \in 1..Len(sel) : d[j] <= d[i]]

(* The while loop of _spatial_sampling: the first available row whose      *)
(* minimum distance to the selected rows is largest (min_dist >            *)
(* best_min_dist is strict) is appended, until n_select rows are selected  *)
(* or none is available.                                                   *)
RECURSIVE SamplingLoop(_, _, _, _)
SamplingLoop(bs, rows, sel, n_select) ==
    LET available == {k \in 1..Len(rows) : \A j \in 1..Len(sel) : sel[j] # k}
    IN  IF Len(sel) < n_select /\ available # {}
        THEN LET best == CHOOSE k \in available : \A i \in available :
                            \/ MinDist2(bs, rows, sel, k) > MinDist2(bs, rows, sel, i)
                            \/ /\ MinDist2(bs, rows, sel, k) = MinDist2(bs, rows, sel, i)
                               /\ k <= i
             IN  SamplingLoop(bs, rows, Append(sel, best), n_select)
        ELSE sel

(* _spatial_sampling(bins, n_select, min_distance) on the rows of one      *)
(* category: starts with the first row nearest to the centroid, whatever   *)
(* n_select is; min_distance is not read.  The result is bins.iloc of the  *)
(* selected positions, in selection order.                                 *)
spatial_sampling(bs, rows, n_select, min_distance) ==
    LET first_idx == CHOOSE k \in 1..Len(rows) : \A i \in 1..Len(rows) :
                        \/ CentroidDist2(bs, rows, k) < CentroidDist2(bs, rows, i)
                        \/ /\ CentroidDist2(bs, rows, k) = CentroidDist2(bs, rows, i)
                           /\ k <= i
        sel == SamplingLoop(bs, rows, <<first_idx>>, n_select)
    IN  List([j \in 1..Len(sel) |-> rows[sel[j]]])

(* for cat in range(self.n_categories): every row of a category with at    *)
(* most target rows, else the rows _spatial_sampling returns.              *)
RECURSIVE SelectPerCategory(_, _, _, _, _)
SelectPerCategory(bs, td, min_distance, cat, K) ==
    IF cat >= K THEN <<>>
    ELSE (IF cat \notin DOMAIN td THEN <<>>
          ELSE LET rows == FilterIdx(bs, {i \in 1..Len(bs) :
                                            bs[i].footfall_category = cat}, 1)
               IN  IF Len(rows) <= td[cat] THEN rows
                   ELSE spatial_sampling(bs, rows, td[cat], min_distance))
         \o SelectPerCategory(bs, td, min_distance, cat + 1, K)

(* BinSensorOptimizer.optimize_sensor_placement(bins, n_sensors,           *)
(* min_distance_m), for non-negative n_sensors.  selected holds the rows   *)
(* of result in order, selection_rank being the position.  On an empty     *)
(* frame argmin, argmax or pd.concat raises ValueError.                    *)
full_optimize_sensor_placement(bs, n, K, min_distance, t) ==
    IF bs = <<>>
    THEN [selected |-> <<>>, target |-> <<>>, outcome |-> "raised"]
    ELSE LET td == target_distribution(t, category_counts(bs), n, K)
         IN  [selected |-> SelectPerCategory(bs, td, min_distance, 0, K),
              target |-> td, outcome |-> "returned"]

----------------------------------------------------------------------------
(* SpecSampling: BinSensorOptimizer.optimize_sensor_placement on short bin *)
(* frames along a street: bins 10, 50, 60 and 120 metres apart, in two     *)
(* footfall categories, with the default min_distance_m.                   *)

MaxFullBins    == 3     \* rows of the bin frame
MaxFullSensors == 3     \* n_sensors ranges over 0..MaxFullSensors

FullSites == {<<0, 0>>, <<10, 0>>, <<60, 0>>, <<120, 0>>}

FullCategories == {0, 3}

FullBinFrames ==
    UNION {{List([i \in 1..m |-> FullBin(f[i][1][1], f[i][1][2], f[i][2])]) :
               f \in [1..m -> FullSites \X FullCategories]} : m \in 0..MaxFullBins}

InitSampling ==
    /\ GridAtRest
    /\ ServerAtRest
    /\ cells = <<>>
    /\ n_categories = NumLabels
    /\ cat_pc = "scored"
    /\ bins = <<>>
    /\ opt_pc = "loaded"
    /\ selected = <<>>
    /\ target_per_category = <<>>
    /\ bins_proj \in FullBinFrames
    /\ n_sensors \in 0..MaxFullSensors
    /\ min_distance_m = DefaultMinDistance
    /\ full_pc = "assigned"
    /\ analysis = WestminsterFootfallAnalysis
    /\ analysis_pc = 0
    /\ calls = NoCalls
    /\ outcome = "none"

OptimizeFull ==
    /\ full_pc = "assigned"
    /\ \E t \in WeightedTargetChoices(n_sensors, category_counts(bins_proj)) :
          LET r == full_optimize_sensor_placement(bins_proj, n_sensors,
                       n_categories, min_distance_m, t)
          IN  /\ selected' = r.selected
              /\ target_per_category' = r.target
              /\ full_pc' = IF r.outcome = "returned" THEN "optimized"
                            ELSE r.outcome
    /\ UNCHANGED <<cells, n_categories, cat_pc, bins, n_sensors, opt_pc>>
    /\ UNCHANGED <<bins_proj, min_distance_m, analysis, analysis_pc, calls,
                   outcome>>
    /\ UNCHANGED <<gridVars, srvVars>>

NextSampling == OptimizeFull

SpecSampling == InitSampling /\ [][NextSampling]_vars

----------------------------------------------------------------------------
(* SpecAnalysis: a WestminsterFootfallAnalysis object whose caller calls   *)
(* run_analysis and optimize_bin_sensors one after the other, in any       *)
(* order, going on after a call that raised.                               *)

MaxAnalysisCalls == 2   \* calls of each method in a behaviour

(* The statements of run_analysis in program order: the field assigned     *)
(* (none for a call that only writes files) and whether the call on the    *)
(* right-hand side can raise.                                              *)
AnalysisSteps ==
    << [field |-> "boundary",      val |-> "loaded",            raises |-> TRUE],
       [field |-> "tube_stations", val |-> "loaded",            raises |-> TRUE],
       [field |-> "bus_stops",     val |-> "loaded",            raises |-> TRUE],
       [field |-> "premises",      val |-> "loaded",            raises |-> TRUE],
       [field |-> "hex_grid",      val |-> "created",           raises |-> TRUE],
       [field |-> "hex_grid",      val |-> "scored",            raises |-> TRUE],
       [field |-> "hex_grid",      val |-> "categorized",       raises |-> TRUE],
       [field |-> "optimizer",     val |-> "BinSensorOptimizer", raises |-> FALSE],
       [field |-> "none",          val |-> "create_footfall_map", raises |-> TRUE],
       [field |-> "none",          val |-> "create_distribution_charts",
                                                                raises |-> TRUE],
       [field |-> "none",          val |-> "_save_results",     raises |-> TRUE] >>

(* The bin files a caller passes: a file load_bin_locations refuses, an    *)
(* empty file, and files with bins along a street in one category.         *)
BinFileChoices ==
    { [suffix |-> ".txt",     rows |-> <<>>],
      [suffix |-> ".csv",     rows |-> <<>>],
      [suffix |-> ".csv",     rows |-> <<FullBin(0, 0, 0), FullBin(10, 0, 0),
                                         FullBin(60, 0, 0)>>],
      [suffix |-> ".geojson", rows |-> <<FullBin(0, 0, 0), FullBin(120, 0, 0)>>] }

InitAnalysis ==
    /\ GridAtRest
    /\ ServerAtRest
    /\ FullAtRest
    /\ cells = <<>>
    /\ n_categories = NumLabels
    /\ cat_pc = "scored"
    /\ bins = <<>>
    /\ n_sensors \in 0..MaxFullSensors
    /\ opt_pc = "loaded"
    /\ selected = <<>>
    /\ target_per_category = <<>>

(* analysis.run_analysis() is called *)
CallRunAnalysis ==
    /\ analysis_pc = 0
    /\ calls.run_analysis < MaxAnalysisCalls
    /\ analysis_pc' = 1
    /\ calls' = [calls EXCEPT !.run_analysis = @ + 1]
    /\ UNCHANGED <<bins_proj, min_distance_m, full_pc, analysis, outcome>>
    /\ UNCHANGED <<pureVars, gridVars, srvVars>>

(* a statement of run_analysis completes *)
RunAnalysisStep ==
    /\ analysis_pc \in 1..Len(AnalysisSteps)
    /\ analysis' = IF AnalysisSteps[analysis_pc].field = "none" THEN analysis
                   ELSE [analysis EXCEPT ![AnalysisSteps[analysis_pc].field] =
                                             AnalysisSteps[analysis_pc].val]
    /\ analysis_pc' = analysis_pc + 1
    /\ UNCHANGED <<bins_proj, min_distance_m, full_pc, calls, outcome>>
    /\ UNCHANGED <<pureVars, gridVars, srvVars>>

(* a call of run_analysis raises: the exception leaves run_analysis *)
RunAnalysisRaise ==
    /\ analysis_pc \in 1..Len(AnalysisSteps)
    /\ AnalysisSteps[analysis_pc].raises
    /\ analysis_pc' = 0
    /\ UNCHANGED <<bins_proj, min_distance_m, full_pc, analysis, calls, outcome>>
    /\ UNCHANGED <<pureVars, gridVars, srvVars>>

(* return self.hex_grid *)
RunAnalysisReturn ==
    /\ analysis_pc = Len(AnalysisSteps) + 1
    /\ analysis_pc' = 0
    /\ calls' = [calls EXCEPT !.completed = @ + 1]
    /\ UNCHANGED <<bins_proj, min_distance_m, full_pc, analysis, outcome>>
    /\ UNCHANGED <<pureVars, gridVars, srvVars>>

(* Variant: no test of self.optimizer; with no optimizer the first method  *)
(* call on it raises AttributeError.                                       *)
OptimizeBinSensorsUnguarded ==
    /\ analysis_pc = 0
    /\ calls.optimize_bin_sensors < MaxAnalysisCalls
    /\ calls' = [calls EXCEPT !.optimize_bin_sensors = @ + 1]
    /\ outcome' = IF analysis.optimizer = "None" THEN "AttributeError"
                  ELSE "returned"
    /\ UNCHANGED <<bins_proj, min_distance_m, full_pc, analysis, analysis_pc>>
    /\ UNCHANGED <<pureVars, gridVars, srvVars>>

(* analysis.optimize_bin_sensors(bin_file_path, n_sensors, min_distance_m): *)
(* the test of self.optimizer, load_bin_locations (ValueError on a file    *)
(* that is neither .csv nor .geojson), assign_bins_to_hexagons, the        *)
(* optimizer, then the maps and the output files, which may raise.         *)
OptimizeBinSensors ==
    /\ analysis_pc = 0
    /\ calls.optimize_bin_sensors < MaxAnalysisCalls
    /\ \E file \in BinFileChoices :
          IF analysis.optimizer = "None"
          THEN /\ outcome' = "ValueError: Run run_analysis() first before optimizing bin sensors"
               /\ calls' = [calls EXCEPT !.optimize_bin_sensors = @ + 1,
                                         !.refused = @ + 1]
               /\ UNCHANGED <<bins_proj, full_pc, selected, target_per_category>>
          ELSE /\ calls' = [calls EXCEPT !.optimize_bin_sensors = @ + 1]
               /\ IF file.suffix \notin {".csv", ".geojson"}
                  THEN /\ outcome' = "ValueError: File must be .csv or .geojson"
                       /\ UNCHANGED <<bins_proj, full_pc, selected,
                                      target_per_category>>
                  ELSE \E t \in WeightedTargetChoices(n_sensors,
                                                      category_counts(file.rows)) :
                          LET r == full_optimize_sensor_placement(file.rows,
                                       n_sensors, n_categories, min_distance_m, t)
                          IN  /\ bins_proj' = file.rows
                              /\ selected' = r.selected
                              /\ target_per_category' = r.target
                              /\ full_pc' = IF r.outcome = "returned"
                                            THEN "optimized" ELSE r.outcome
                              /\ outcome' \in IF r.outcome = "returned"
                                              THEN {"returned", "raised"}
                                              ELSE {"raised"}
    /\ UNCHANGED <<min_distance_m, analysis, analysis_pc>>
    /\ UNCHANGED <<cells, n_categories, cat_pc, bins, n_sensors, opt_pc>>
    /\ UNCHANGED <<gridVars, srvVars>>

NextAnalysis ==
    \/ CallRunAnalysis
    \/ RunAnalysisStep
    \/ RunAnalysisRaise
    \/ RunAnalysisReturn
    \/ OptimizeBinSensors

SpecAnalysis == InitAnalysis /\ [][NextAnalysis]_vars

----------------------------------------------------------------------------
(* SpecServer: /api/run-analysis requests handled by the single thread of  *)
(* HTTPServer, and the run_full_analysis threads they start.               *)

InitServer ==
    /\ GridAtRest
    /\ ServerAtRest
    /\ FullAtRest
    /\ PipelineAtRest

(* do_GET / do_POST on /api/run-analysis, up to the test of state.status:  *)
(* a running status is answered already_running.  The request is followed  *)
(* only while a thread is left to start.                                   *)
RunAnalysisCheck ==
    /\ handler = "idle"
    /\ \E t \in 1..MaxStarted : run[t].pc = PcNotStarted
    /\ IF state.status = "running"
       THEN /\ response' = "already_running"
            /\ UNCHANGED handler
       ELSE /\ handler' = "start thread"
            /\ UNCHANGED response
    /\ UNCHANGED <<state, run, pureVars, gridVars, fullVars>>

(* threading.Thread(target=run_full_analysis).start(), then the answer *)
RunAnalysisStart ==
    /\ handler = "start thread"
    /\ LET t == CHOOSE u \in 1..MaxStarted :
                    /\ run[u].pc = PcNotStarted
                    /\ \A v \in 1..MaxStarted : run[v].pc = PcNotStarted => u <= v
       IN  run' = [run EXCEPT ![t] = [pc |-> 1, stage |-> "none",
                                      cells0 |-> state.cells,
                                      bins0 |-> state.bins]]
    /\ handler' = "idle"
    /\ response' = "started"
    /\ UNCHANGED <<state, pureVars, gridVars, fullVars>>

(* state.status = ..., state.progress = ..., state.message = ... *)
SetProperty(t) ==
    /\ InTry(run[t])
    /\ RunSteps[run[t].pc].kind = "set"
    /\ state' = [state EXCEPT ![RunSteps[run[t].pc].field] = RunSteps[run[t].pc].val]
    /\ run' = [run EXCEPT ![t].pc = @ + 1]
    /\ UNCHANGED <<handler, response, pureVars, gridVars, fullVars>>

(* state.tubes = load_tube_stations() and the like *)
LoadData(t) ==
    /\ InTry(run[t])
    /\ RunSteps[run[t].pc].kind = "load"
    /\ state' = [state EXCEPT ![RunSteps[run[t].pc].field] = 1]
    /\ run' = [run EXCEPT ![t].pc = @ + 1]
    /\ UNCHANGED <<handler, response, pureVars, gridVars, fullVars>>

(* Variant: a call step runs any of the calls that are still ahead *)
PipelineCallAnyAhead(t) ==
    /\ InTry(run[t])
    /\ RunSteps[run[t].pc].kind = "call"
    /\ \E q \in run[t].pc..Len(RunSteps) :
          /\ RunSteps[q].kind = "call"
          /\ run' = [run EXCEPT ![t].stage = RunSteps[q].val,
                                ![t].pc = q + 1]
    /\ UNCHANGED <<state, handler, response, pureVars, gridVars, fullVars>>

(* a pipeline call on the locals of the thread returns *)
PipelineCall(t) ==
    /\ InTry(run[t])
    /\ RunSteps[run[t].pc].kind = "call"
    /\ run' = [run EXCEPT ![t].stage = RunSteps[run[t].pc].val,
                          ![t].pc = @ + 1]
    /\ UNCHANGED <<state, handler, response, pureVars, gridVars, fullVars>>

(* state.cells = cells, state.bins = bins *)
Publish(t) ==
    /\ InTry(run[t])
    /\ RunSteps[run[t].pc].kind = "publish"
    /\ state' = [state EXCEPT ![RunSteps[run[t].pc].field] = t]
    /\ run' = [run EXCEPT ![t].pc = @ + 1]
    /\ UNCHANGED <<handler, response, pureVars, gridVars, fullVars>>

(* a loader or a pipeline call raises: control goes to the except clause *)
Raise(t) ==
    /\ InTry(run[t])
    /\ RunSteps[run[t].pc].kind \in {"load", "call"}
    /\ run' = [run EXCEPT ![t].pc = PcExceptStatus]
    /\ UNCHANGED <<state, handler, response, pureVars, gridVars, fullVars>>

(* Variant: the except clause leaves the status as it is *)
ExceptStatusSkipped(t) ==
    /\ run[t].pc = PcExceptStatus
    /\ run' = [run EXCEPT ![t].pc = PcExceptMessage]
    /\ UNCHANGED <<state, handler, response, pureVars, gridVars, fullVars>>

(* except Exception: state.status = "error" *)
ExceptStatus(t) ==
    /\ run[t].pc = PcExceptStatus
    /\ state' = [state EXCEPT !.status = "error"]
    /\ run' = [run EXCEPT ![t].pc = PcExceptMessage]
    /\ UNCHANGED <<handler, response, pureVars, gridVars, fullVars>>

(* state.message = f"Error: {str(e)}" *)
ExceptMessage(t) ==
    /\ run[t].pc = PcExceptMessage
    /\ state' = [state EXCEPT !.message = "Error: "]
    /\ run' = [run EXCEPT ![t].pc = PcFailed]
    /\ UNCHANGED <<handler, response, pureVars, gridVars, fullVars>>

NextServer ==
    \/ RunAnalysisCheck
    \/ RunAnalysisStart
    \/ \E t \in 1..MaxStarted : SetProperty(t)
    \/ \E t \in 1..MaxStarted : LoadData(t)
    \/ \E t \in 1..MaxStarted : PipelineCall(t)
    \/ \E t \in 1..MaxStarted : Publish(t)
    \/ \E t \in 1..MaxStarted : Raise(t)
    \/ \E t \in 1..MaxStarted : ExceptStatus(t)
    \/ \E t \in 1..MaxStarted : ExceptMessage(t)

SpecServer == InitServer /\ [][NextServer]_vars

(* A started thread is scheduled again and again until it returns: the     *)
(* steps of run_full_analysis, taken together, are weakly fair.  Requests  *)
(* come or not.                                                            *)
ThreadStep(t) ==
    \/ SetProperty(t)
    \/ LoadData(t)
    \/ PipelineCall(t)
    \/ Publish(t)
    \/ Raise(t)
    \/ ExceptStatus(t)
    \/ ExceptMessage(t)

SpecServerLive ==
    SpecServer /\ \A t \in 1..MaxStarted : WF_vars(ThreadStep(t))

----------------------------------------------------------------------------
(* Claims about categorize_cells (SpecCategorize) *)

CellsInCategory(c) == {e \in 1..Len(cells) : cells[e].footfall_category = c}

(* C7: after categorize_cells on n cells with K categories every cell's    *)
(* category is an integer in [0, K) and the sizes of any two of the K      *)
(* category groups differ by at most 1.                                    *)
C7_CategoriesBalanced ==
    cat_pc = "done" =>
        /\ \A e \in 1..Len(cells) :
              cells[e].footfall_category \in 0..(n_categories - 1)
        /\ \A c, d \in 0..(n_categories - 1) :
              Cardinality(CellsInCategory(c))
                  <= Cardinality(CellsInCategory(d)) + 1

C7_Witness ==
    /\ cat_pc = "done"
    /\ Len(cells) = 5
    /\ n_categories = 3
    /\ Cardinality(CellsInCategory(0)) = 2
    /\ Cardinality(CellsInCategory(1)) = 2
    /\ Cardinality(CellsInCategory(2)) = 1
    /\ \E a, b \in 1..Len(cells) :
          cells[a].footfall_score # cells[b].footfall_score

(* C8: after categorize_cells, a cell with a strictly smaller              *)
(* footfall_score never has a larger footfall_category.                    *)
C8_ScoreMonotone ==
    cat_pc = "done" =>
        \A a, b \in 1..Len(cells) :
            cells[a].footfall_score < cells[b].footfall_score
                => cells[a].footfall_category <= cells[b].footfall_category

C8_Witness ==
    /\ cat_pc = "done"
    /\ \E a, b \in 1..Len(cells) :
          /\ a > b
          /\ cells[a].footfall_score < cells[b].footfall_score
          /\ cells[a].footfall_category < cells[b].footfall_category

(* C9: cells with equal footfall_score are ranked in input (id) order: of  *)
(* two cells with the same score the earlier one has the smaller or equal  *)
(* category; when all cells tie, the cell with 0-based index i among n     *)
(* has category min(floor(i * K / n), K - 1).                              *)
C9_TiesInIdOrder ==
    cat_pc = "done" =>
        /\ \A a, b \in 1..Len(cells) :
              (a < b /\ cells[a].footfall_score = cells[b].footfall_score)
                  => cells[a].footfall_category <= cells[b].footfall_category
        /\ (\A a, b \in 1..Len(cells) :
                cells[a].footfall_score = cells[b].footfall_score)
              => \A e \in 1..Len(cells) :
                    /\ cells[e].cell_id = e - 1
                    /\ cells[e].footfall_category =
                          Min(((e - 1) * n_categories) \div Len(cells),
                              n_categories - 1)

C9_Witness ==
    /\ cat_pc = "done"
    /\ Len(cells) = 4
    /\ n_categories = 2
    /\ \A a, b \in 1..Len(cells) :
          cells[a].footfall_score = cells[b].footfall_score
    /\ cells[2].footfall_category = 0
    /\ cells[3].footfall_category = 1

Untouched(c) ==
    c.footfall_category = 0 /\ c.footfall_category_name = NoName

(* C18: when N_FOOTFALL_CATEGORIES differs from the number of reference    *)
(* labels, categorize_cells either rejects the configuration, leaving      *)
(* every cell as it was, or labels over the full label range (with two or  *)
(* more categories the lowest category carries the first label and the     *)
(* highest category the last label).                                       *)
C18_LabelsRederivedOrRejected ==
    (n_categories # NumLabels /\ cat_pc \in {"done", "error"}) =>
        \/ /\ cat_pc = "error"
           /\ \A e \in 1..Len(cells) : Untouched(cells[e])
        \/ /\ cat_pc = "done"
           /\ n_categories >= 2 =>
                 \A e \in 1..Len(cells) :
                     /\ cells[e].footfall_category = 0
                            => cells[e].footfall_category_name = 0
                     /\ cells[e].footfall_category = n_categories - 1
                            => cells[e].footfall_category_name = NumLabels - 1

----------------------------------------------------------------------------
(* Claims about optimize_sensor_placement (SpecPlacement) *)

AssignedSet == {i \in 1..Len(bins) : bins[i].cell_id # NoCell}
SelectedSet == {i \in 1..Len(bins) : bins[i].selected_for_sensor}
AssignedIn(c) == {i \in AssignedSet : bins[i].footfall_category = c}
OptimizeEnded == opt_pc \in {"optimized", "looping", "raised"}

(* C1: optimize_sensor_placement marks at most n_sensors bins as selected, *)
(* and exactly n_sensors when the number of assigned bins is at least      *)
(* n_sensors.                                                              *)
C1_AtMostNSensors ==
    opt_pc = "optimized" =>
        /\ Cardinality(SelectedSet) <= n_sensors
        /\ Cardinality(AssignedSet) >= n_sensors
              => Cardinality(SelectedSet) = n_sensors

(* C4: when the number of assigned bins is at most n_sensors (equality     *)
(* included) optimize_sensor_placement returns without error, selects      *)
(* every assigned bin with the ranks 1..count, and leaves the unassigned   *)
(* bins unselected.                                                        *)
C4_SelectAllWhenFew ==
    (OptimizeEnded /\ Cardinality(AssignedSet) <= n_sensors) =>
        /\ opt_pc = "optimized"
        /\ SelectedSet = AssignedSet
        /\ {bins[i].selection_rank : i \in AssignedSet}
               = 1..Cardinality(AssignedSet)
        /\ \A i \in 1..Len(bins) :
              bins[i].cell_id = NoCell => ~bins[i].selected_for_sensor

C4_Witness ==
    /\ opt_pc = "optimized"
    /\ Cardinality(AssignedSet) = n_sensors
    /\ n_sensors > MinPerCategory
    /\ AssignedIn(0) # {}
    /\ AssignedIn(1) # {}
    /\ SelectedSet = AssignedSet

(* C5: after optimize_sensor_placement on freshly assigned bins the        *)
(* selection_rank values of the selected bins are exactly 1..number of     *)
(* selected bins, no two selected bins sharing a rank.                     *)
C5_RanksDense ==
    opt_pc = "optimized" =>
        /\ {bins[i].selection_rank : i \in SelectedSet}
               = 1..Cardinality(SelectedSet)
        /\ \A i, j \in SelectedSet :
              bins[i].selection_rank = bins[j].selection_rank => i = j

C5_Witness ==
    /\ opt_pc = "optimized"
    /\ Cardinality(AssignedSet) > n_sensors
    /\ Cardinality(SelectedSet) > MinPerCategory
    /\ \E i, j \in SelectedSet :
          /\ i < j
          /\ bins[i].selection_rank > bins[j].selection_rank

(* C6: after optimize_sensor_placement every footfall category with at     *)
(* least one assigned bin has at least min(20, number of assigned bins of  *)
(* the category) selected bins.                                            *)
C6_CategoryFloor ==
    opt_pc = "optimized" =>
        \A c \in {bins[i].footfall_category : i \in AssignedSet} :
            Cardinality(AssignedIn(c) \cap SelectedSet)
                >= Min(MinPerCategory, Cardinality(AssignedIn(c)))

C6_Witness ==
    /\ opt_pc = "optimized"
    /\ \E c \in {bins[i].footfall_category : i \in AssignedSet} :
          /\ Cardinality(AssignedIn(c)) > MinPerCategory
          /\ Cardinality(AssignedIn(c) \cap SelectedSet) = MinPerCategory
    /\ \E d \in {bins[i].footfall_category : i \in AssignedSet} :
          Cardinality(AssignedIn(d)) < MinPerCategory

(* C10: a bin that assign_bins_to_cells left unassigned (cell_id empty) is *)
(* never marked selected_for_sensor and never gets a selection_rank, in    *)
(* the select-all path as in the per-category path.                        *)
C10_UnassignedNeverSelected ==
    \A i \in 1..Len(bins) :
        bins[i].cell_id = NoCell =>
            /\ ~bins[i].selected_for_sensor
            /\ bins[i].selection_rank = 0

C10_Witness ==
    /\ opt_pc = "optimized"
    /\ Cardinality(AssignedSet) >= n_sensors
    /\ SelectedSet # {}
    /\ \E i \in 1..Len(bins) : bins[i].cell_id = NoCell

TargetTotal == SumOver(target_per_category, DOMAIN target_per_category)

(* The per-category path has been taken and has returned *)
PerCategoryReturned ==
    opt_pc = "optimized" /\ Cardinality(AssignedSet) >= n_sensors

(* C24: after the target reconciliation of the per-category path the sum   *)
(* of the per-category targets is exactly n_sensors, and no category's     *)
(* target exceeds the number of assigned bins of the category.             *)
C24_TargetsSumToNSensors ==
    PerCategoryReturned =>
        /\ TargetTotal = n_sensors
        /\ \A c \in DOMAIN target_per_category :
              target_per_category[c] <= Cardinality(AssignedIn(c))

----------------------------------------------------------------------------
(* Claims about optimize_sensor_placement on the scenario (SpecScenario) *)

ScenarioReached ==
    /\ {bins[i].footfall_category : i \in AssignedSet} = {0, 1, 2}
    /\ Cardinality(AssignedIn(0)) = 4
    /\ Cardinality(AssignedIn(1)) = 100
    /\ Cardinality(AssignedIn(2)) = 4
    /\ n_sensors = 30

(* C21: with assigned-bin counts [4, 100, 4] over three categories and     *)
(* n_sensors = 30, optimize_sensor_placement returns, the targets after    *)
(* floor and reconciliation are [4, 22, 4], every bin of categories 0 and  *)
(* 2 is selected, 22 bins of category 1 are, and 30 bins in total.         *)
C21_ScenarioTargets ==
    (OptimizeEnded /\ ScenarioReached) =>
        /\ opt_pc = "optimized"
        /\ target_per_category = (0 :> 4 @@ 1 :> 22 @@ 2 :> 4)
        /\ AssignedIn(0) \subseteq SelectedSet
        /\ AssignedIn(2) \subseteq SelectedSet
        /\ Cardinality(AssignedIn(1) \cap SelectedSet) = 22
        /\ Cardinality(SelectedSet) = 30

C21_Witness ==
    /\ opt_pc = "optimized"
    /\ ScenarioReached
    /\ Cardinality(SelectedSet) = 30
    /\ \E i \in 1..Len(bins) : bins[i].cell_id = NoCell

(* Bin i is before bin j in the (lat, lon) sort of their category: the     *)
(* sort is stable, equal keys keep the list order.                         *)
SortsBefore(i, j) ==
    \/ bins[i].lat < bins[j].lat
    \/ bins[i].lat = bins[j].lat /\ bins[i].lon < bins[j].lon
    \/ bins[i].lat = bins[j].lat /\ bins[i].lon = bins[j].lon /\ i < j

(* C25: in the per-category path a selected bin of a lower category has a  *)
(* lower selection_rank than every selected bin of a higher category, and  *)
(* within one category the ranks increase with the position of the bins in *)
(* the (lat, lon) sort.                                                    *)
C25_RanksByCategoryThenPosition ==
    PerCategoryReturned =>
        \A i, j \in SelectedSet :
            /\ bins[i].footfall_category < bins[j].footfall_category
                   => bins[i].selection_rank < bins[j].selection_rank
            /\ (bins[i].footfall_category = bins[j].footfall_category
                    /\ SortsBefore(i, j))
                   => bins[i].selection_rank < bins[j].selection_rank

C25_Witness ==
    /\ PerCategoryReturned
    /\ Cardinality(AssignedSet) > n_sensors
    /\ \E i, j \in SelectedSet :
          /\ i > j
          /\ bins[i].footfall_category = bins[j].footfall_category
          /\ bins[i].lat < bins[j].lat
          /\ bins[i].selection_rank < bins[j].selection_rank
    /\ \E i, j \in SelectedSet :
          /\ i > j
          /\ bins[i].footfall_category < bins[j].footfall_category
          /\ bins[i].selection_rank < bins[j].selection_rank

(* The targets before the adjustment are at most this *)
TargetBeforeAdjustment(c) ==
    LET cnt == CategoryCounts(bins, AssignedBins(bins))
    IN  FloorTarget(SqrtTargetHi(n_sensors, cnt)[c], cnt[c])

(* C29: the reconciliation loop of optimize_sensor_placement terminates on *)
(* every input that reaches it, and an input reaches it only when the      *)
(* number of assigned bins is at least n_sensors.                          *)
C29_ReconciliationTerminates ==
    /\ opt_pc # "looping"
    /\ (OptimizeEnded /\ target_per_category # <<>>)
           => Cardinality(AssignedSet) >= n_sensors

(* The loop has made two passes or more over a category at its count *)
C29_Witness ==
    /\ PerCategoryReturned
    /\ TargetTotal = n_sensors
    /\ \E c, d \in DOMAIN target_per_category :
          /\ target_per_category[c] >= TargetBeforeAdjustment(c) + 2
          /\ c > d
          /\ target_per_category[d] = Cardinality(AssignedIn(d))
          /\ target_per_category[d] = TargetBeforeAdjustment(d)

(* C30: in the per-category path every category with an assigned bin has a *)
(* target of at least 1, the stride never divides by zero, and the stride  *)
(* selection marks exactly target[c] distinct bins of category c.          *)
C30_StrideMarksTarget ==
    (OptimizeEnded /\ Cardinality(AssignedSet) >= n_sensors) =>
        /\ opt_pc # "raised"
        /\ opt_pc = "optimized" =>
              /\ DOMAIN target_per_category
                     = {bins[i].footfall_category : i \in AssignedSet}
              /\ \A c \in DOMAIN target_per_category :
                    /\ target_per_category[c] >= 1
                    /\ Cardinality(AssignedIn(c) \cap SelectedSet)
                           = target_per_category[c]
              /\ Len(selected) = Cardinality(SelectedSet)

C30_Witness ==
    /\ PerCategoryReturned
    /\ \E c \in DOMAIN target_per_category :
          /\ Cardinality(AssignedIn(c)) \div target_per_category[c] >= 2
          /\ Cardinality(AssignedIn(c)) % target_per_category[c] # 0
          /\ Cardinality(AssignedIn(c) \cap SelectedSet) = target_per_category[c]
          /\ target_per_category[c] > MinPerCategory

----------------------------------------------------------------------------
(* Claims about BinSensorOptimizer.optimize_sensor_placement               *)
(* (SpecSampling)                                                          *)

RowDist2(i, j) ==
    Dist2(bins_proj[i].x, bins_proj[i].y, bins_proj[j].x, bins_proj[j].y)

(* C22: any two bins BinSensorOptimizer.optimize_sensor_placement selects  *)
(* within the same category are at least min_distance_m apart.             *)
C22_SelectedBinsApart ==
    full_pc = "optimized" =>
        \A a, b \in 1..Len(selected) :
            (a # b /\ bins_proj[selected[a]].footfall_category
                         = bins_proj[selected[b]].footfall_category)
                => RowDist2(selected[a], selected[b])
                       >= min_distance_m * min_distance_m

----------------------------------------------------------------------------
(* Claims about WestminsterFootfallAnalysis (SpecAnalysis) *)

Refused == "ValueError: Run run_analysis() first before optimizing bin sensors"

----------------------------------------------------------------------------
(* Claims about the server (SpecServer) *)

(* C2: a request to /api/run-analysis that arrives while a run is in       *)
(* progress starts no second run: under every interleaving of request      *)
(* handling and the background threads at most one execution of            *)
(* run_full_analysis is in flight at any time.                             *)
C2_AtMostOneRunInFlight == Cardinality(RunsInFlight) <= 1

(* C3: when run_full_analysis fails with an exception at any stage, the    *)
(* published state.cells and state.bins are exactly what they were before  *)
(* that run started.                                                       *)
C3_FailedRunLeavesResults ==
    \A t \in 1..MaxStarted :
        run[t].pc = PcFailed =>
            /\ state.cells = run[t].cells0
            /\ state.bins = run[t].bins0

(* The pipeline calls of a run, in the order they are to complete *)
StageOrder ==
    <<"create_grid", "calculate_footfall_scores", "categorize_cells",
      "load_bins_from_csv", "assign_bins_to_cells",
      "optimize_sensor_placement", "save_grid_csv">>

StageRank(stage) ==
    IF stage = "none" THEN 0
    ELSE CHOOSE k \in 1..Len(StageOrder) : StageOrder[k] = stage

(* C19: within one run grid build, score, categorize, (load bins,) assign  *)
(* bins and optimize placement complete strictly in that order, one stage  *)
(* at a time, and a run writes state.cells only once its categorize stage  *)
(* has completed and state.bins only once its optimize stage has           *)
(* completed.                                                              *)
C19_StagesInOrder ==
    [][\A t \in 1..MaxStarted :
          /\ (run'[t].stage # run[t].stage /\ run[t].pc # PcNotStarted)
                 => StageRank(run'[t].stage) = StageRank(run[t].stage) + 1
          /\ (state'.cells # state.cells /\ state'.cells = t)
                 => /\ run[t].stage = "categorize_cells"
                    /\ run'[t].stage = "categorize_cells"
          /\ (state'.bins # state.bins /\ state'.bins = t)
                 => /\ run[t].stage = "optimize_sensor_placement"
                    /\ run'[t].stage = "optimize_sensor_placement"]_vars

C19_Witness ==
    \E t \in 1..MaxStarted :
        /\ state.cells = t
        /\ state.bins = t
        /\ run[t].stage = "save_grid_csv"
        /\ run[t].pc = PcReturned

Started(r) == r.pc # PcNotStarted

(* C20: every started run eventually ends; when it ends by returning the   *)
(* status is "complete", when it ends by failing the status is "error"     *)
(* and the message starts with "Error: "; an ended run does nothing more,  *)
(* and a run starts only in the handling of an /api/run-analysis request.  *)
C20_RunsEndWithTerminalStatus ==
    /\ \A t \in 1..MaxStarted : Started(run[t]) ~> Ended(run[t])
    /\ [][\A t \in 1..MaxStarted :
             /\ (run'[t].pc = PcReturned /\ run[t].pc # PcReturned)
                    => state'.status = "complete"
             /\ (run'[t].pc = PcFailed /\ run[t].pc # PcFailed)
                    => /\ state'.status = "error"
                       /\ state'.message = "Error: "
             /\ Ended(run[t]) => run'[t] = run[t]
             /\ (~Started(run[t]) /\ Started(run'[t]))
                    => handler = "start thread"]_vars

----------------------------------------------------------------------------
(* Claims about assign_bins_to_cells (SpecAssign) *)

BinCellDist2(i, e) ==
    Dist2(bins[i].lat, bins[i].lon, cells[e].center_lat, cells[e].center_lon)

Reach2 == (GRID_RESOLUTION * 2) * (GRID_RESOLUTION * 2)

(* C11: after assign_bins_to_cells a linked bin is linked to a cell of     *)
(* minimum distance over all cells, that distance is below                 *)
(* 2 * GRID_RESOLUTION, and the bin carries that cell's category and       *)
(* score; a bin whose nearest cell is at 2 * GRID_RESOLUTION or farther,   *)
(* or that meets an empty cell list, is exactly as it was loaded: empty    *)
(* cell_id, inherited fields unchanged.                                    *)
C11_LinkedToNearestInReach ==
    opt_pc = "assigned" =>
        \A i \in 1..Len(bins) :
            /\ bins[i].cell_id # NoCell =>
                   \E e \in 1..Len(cells) :
                       /\ cells[e].cell_id = bins[i].cell_id
                       /\ BinCellDist2(i, e) < Reach2
                       /\ \A f \in 1..Len(cells) :
                              BinCellDist2(i, e) <= BinCellDist2(i, f)
                       /\ bins[i].footfall_category = cells[e].footfall_category
                       /\ bins[i].footfall_score = cells[e].footfall_score
            /\ (\A f \in 1..Len(cells) : BinCellDist2(i, f) >= Reach2) =>
                   bins[i] = BinLocation(bins[i].bin_id, bins[i].lat, bins[i].lon)

C11_Witness ==
    /\ opt_pc = "assigned"
    /\ cells # <<>>
    /\ \E i, j, k \in 1..Len(bins) :
          /\ bins[i].cell_id # NoCell
          /\ \A f \in 1..Len(cells) : BinCellDist2(i, f) = BinCellDist2(i, 1)
          /\ bins[j].cell_id = NoCell
          /\ \E f \in 1..Len(cells) : BinCellDist2(j, f) = Reach2
          /\ bins[k].cell_id = cells[2].cell_id

----------------------------------------------------------------------------
(* Claims about calculate_footfall_scores (SpecScore) *)

CellDist(e, poi) ==
    distance_to(cells[e].center_lat, cells[e].center_lon, poi.lat, poi.lon)

(* C12: after calculate_footfall_scores with non-negative annual_usage,    *)
(* frequency and capacity, every cell's tube_score, bus_score and          *)
(* premises_score is >= 0.                                                 *)
C12_ComponentScoresNonNegative ==
    cat_pc = "scored" =>
        \A e \in 1..Len(cells) :
            /\ cells[e].tube_score >= 0
            /\ cells[e].bus_score >= 0
            /\ cells[e].premises_score >= 0

C12_Witness ==
    /\ cat_pc = "scored"
    /\ \E e \in 1..Len(cells) :
          /\ cells[e].tube_score > 0
          /\ cells[e].bus_score > 0
    /\ \E e \in 1..Len(cells) :
          /\ cells[e].tube_score > 0
          /\ cells[e].bus_score = 0

StrictlyInside(pois, e, radius) ==
    SelectSeq(pois, LAMBDA p : CellDist(e, p) < radius)

Unscored(e) ==
    GridCell(cells[e].cell_id, cells[e].center_lat, cells[e].center_lon, 0)

(* C13: a point of interest at distance equal to or greater than its       *)
(* type's influence radius contributes 0 to a cell's raw score: each raw   *)
(* score is the sum of the influences of the points at distance strictly   *)
(* less than the radius, and is 0 when there is none.                      *)
C13_OnlyStrictlyInsideContributes ==
    cat_pc = "scored" =>
        \A e \in 1..Len(cells) :
            /\ cells[e].tube_score =
                   TubeScore(Unscored(e),
                             StrictlyInside(tubes, e, TUBE_INFLUENCE_RADIUS), 1)
            /\ cells[e].bus_score =
                   BusScore(Unscored(e),
                            StrictlyInside(buses, e, BUS_INFLUENCE_RADIUS), 1)
            /\ cells[e].premises_score =
                   PremisesScore(Unscored(e),
                       StrictlyInside(premises, e, PREMISES_INFLUENCE_RADIUS), 1)
            /\ StrictlyInside(tubes, e, TUBE_INFLUENCE_RADIUS) = <<>>
                   => cells[e].tube_score = 0
            /\ StrictlyInside(buses, e, BUS_INFLUENCE_RADIUS) = <<>>
                   => cells[e].bus_score = 0
            /\ StrictlyInside(premises, e, PREMISES_INFLUENCE_RADIUS) = <<>>
                   => cells[e].premises_score = 0

C13_Witness ==
    /\ cat_pc = "scored"
    /\ \E e \in 1..Len(cells), k \in 1..Len(tubes) :
          /\ CellDist(e, tubes[k]) = TUBE_INFLUENCE_RADIUS
          /\ tubes[k].annual_usage > 0
          /\ cells[e].tube_score = 0
    /\ \E e \in 1..Len(cells), k \in 1..Len(buses) :
          /\ CellDist(e, buses[k]) > BUS_INFLUENCE_RADIUS
          /\ buses[k].frequency > 0
          /\ cells[e].bus_score = 0

RawNotAllEqual(xs) == \E j, k \in 1..Len(xs) : xs[j] # xs[k]

MinMaxNormalized(xs, ns) ==
    RawNotAllEqual(xs) =>
        \A e \in 1..Len(xs) :
            /\ (\A k \in 1..Len(xs) : xs[e] <= xs[k]) => ns[e].num = 0
            /\ (\A k \in 1..Len(xs) : xs[e] >= xs[k]) => ns[e].num = ns[e].den

(* C14: each of the three raw component scores is min-max normalized over  *)
(* the cells of the run: when the raw values are not all equal, the cell   *)
(* with the smallest raw value has normalized component 0 and the cell     *)
(* with the largest has 1, also when the smallest raw value is positive.   *)
C14_ComponentsMinMaxNormalized ==
    cat_pc = "scored" =>
        /\ MinMaxNormalized([e \in 1..Len(cells) |-> cells[e].tube_score],
                            [e \in 1..Len(cells) |-> norms[e].tube_norm])
        /\ MinMaxNormalized([e \in 1..Len(cells) |-> cells[e].bus_score],
                            [e \in 1..Len(cells) |-> norms[e].bus_norm])
        /\ MinMaxNormalized([e \in 1..Len(cells) |-> cells[e].premises_score],
                            [e \in 1..Len(cells) |-> norms[e].premises_norm])

----------------------------------------------------------------------------
(* Claims about create_grid (SpecGrid) *)

ScansBefore(a, b) ==
    \/ a.center_lat < b.center_lat
    \/ a.center_lat = b.center_lat /\ a.center_lon < b.center_lon

OnLattice(c) ==
    /\ c.center_lat \in config.MIN_LAT..config.MAX_LAT
    /\ c.center_lon \in config.MIN_LON..config.MAX_LON
    /\ (c.center_lat - config.MIN_LAT) % config.GRID_RESOLUTION = 0
    /\ (c.center_lon - config.MIN_LON) % config.GRID_RESOLUTION = 0

(* C15: the cells create_grid returns carry the ids 0, 1, 2, ... in list   *)
(* order (unique, dense over the kept cells only), the list is in lattice  *)
(* scan order (latitude outer, longitude inner, both ascending), and every *)
(* kept cell is a lattice point whose center satisfies is_in_westminster.  *)
C15_IdsDenseInScanOrder ==
    grid_pc = "created" =>
        /\ \A e \in 1..Len(cells) : cells[e].cell_id = e - 1
        /\ \A e, f \in 1..Len(cells) :
              e < f => ScansBefore(cells[e], cells[f])
        /\ \A e \in 1..Len(cells) :
              /\ OnLattice(cells[e])
              /\ \E r \in BOOLEAN :
                    is_in_westminster(cells[e].center_lat, cells[e].center_lon, r)

C15_Witness ==
    /\ grid_pc = "created"
    /\ Len(cells) >= 3
    /\ cells[1].center_lat > config.MIN_LAT
    /\ cells[1].center_lon > config.MIN_LON
    /\ cells[Len(cells)].center_lat > cells[1].center_lat
    /\ cells[Len(cells)].center_lon < config.MAX_LON

EmptyBox ==
    \/ config.MIN_LAT >= config.MAX_LAT
    \/ config.MIN_LON >= config.MAX_LON

(* C16: with an empty bounding box (MIN_LAT >= MAX_LAT or                  *)
(* MIN_LON >= MAX_LON) grid building reports a configuration error: it     *)
(* never returns a cell list, empty or not.                                *)
C16_EmptyBoxNeverReturnsCells ==
    EmptyBox => grid_pc # "created"

(* C17: with GRID_RESOLUTION <= 0 the configuration is rejected before any *)
(* cell is created: create_grid neither returns a cell list nor runs       *)
(* forever.                                                                *)
C17_NonPositiveResolutionRejected ==
    config.GRID_RESOLUTION <= 0 => grid_pc \notin {"created", "looping"}

----------------------------------------------------------------------------
(* Claims about the published state of the server (SpecServer) *)

(* C26: in every state of the server a status of "complete" comes with a   *)
(* progress of 100 and with state.cells and state.bins both published.     *)
C26_CompleteMeansAllPublished ==
    state.status = "complete" =>
        /\ state.progress = 100
        /\ state.cells # 0
        /\ state.bins # 0

(* C27: while no run_full_analysis thread is in flight the status is not   *)
(* "running": it is idle, complete or error.                               *)
C27_NoRunNotRunning ==
    RunsInFlight = {} => state.status \in {"idle", "complete", "error"}

C27_Witness ==
    /\ \A t \in 1..MaxStarted : Ended(run[t])
    /\ \E t \in 1..MaxStarted : run[t].pc = PcFailed
    /\ \E t \in 1..MaxStarted : run[t].pc = PcReturned
    /\ state.status = "error"
    /\ handler = "idle"

(* C28: the cell list in state.cells is one on which every call that       *)
(* writes cells has returned, categorize_cells last, and no call made      *)
(* after the publication writes cells again: the run that published the    *)
(* list goes on with calls that only read it, and another run writes the   *)
(* list it built itself.                                                   *)
C28_PublishedCellsComplete ==
    /\ [](state.cells # 0 =>
             \A w \in CellWriters :
                 StageRank(run[state.cells].stage) >= StageRank(w))
    /\ [][\A t \in 1..MaxStarted :
             (state.cells = t /\ run'[t].stage # run[t].stage)
                 => run'[t].stage \notin CellWriters]_vars

C28_Witness ==
    \E t, u \in 1..MaxStarted :
        /\ t # u
        /\ state.cells = t
        /\ run[t].stage = "assign_bins_to_cells"
        /\ InTry(run[t])
        /\ run[u].stage = "calculate_footfall_scores"
        /\ InTry(run[u])

====
